---- MODULE Spec2Model ----
(***************************************************************************)
(* State-machine model of SpotifyTidalDownloader                           *)
(* (src/app/spotify_tidal_downloader.py): the sequential resolution loop   *)
(* of run(), the pool of _download_worker tasks fed by download_queue, the *)
(* two in-memory cache maps and the two JSON documents they are saved to.  *)
(*                                                                         *)
(* One step of the model is the code executed by one asyncio task between  *)
(* two suspension points (an awaited network call or sleep).  A network    *)
(* call is modelled by the step that handles its outcome; the outcome is   *)
(* drawn nondeterministically from the outcomes the code distinguishes.    *)
(***************************************************************************)
EXTENDS Naturals, Sequences, FiniteSets, TLC

(***************************************************************************)
(* Bounds of the model.                                                    *)
(***************************************************************************)
NumTitles == 2                      \* distinct full_title strings
MaxTracks == 2                      \* rows of the playlist
NumQueries == 2                     \* queries _get_queries returns for a track
CONFIG_CONCURRENT_DOWNLOADS == 2    \* workers started by _start_workers
MaxRuns == 2                        \* successive runs of the program
NumCachedTitles == 3                \* full_titles the documents of a sync pass can hold

(***************************************************************************)
(* Program constants (src/app/constants.py).                               *)
(***************************************************************************)
RETRY_COUNT_DOWNLOAD == 3
RETRY_COUNT_API == 5

\* Variant of LoopContinues with one iteration more.
LoopContinues_OneMore(made, count) == made < count + 1
\* "for _ in range(count)" after made iterations that did not leave the loop:
\* another iteration follows.
LoopContinues(made, count) == made < count

Titles == 1..NumTitles
Workers == 1..CONFIG_CONCURRENT_DOWNLOADS

(***************************************************************************)
(* Failure reasons: the value stored under "reason" in failed.json.  kind  *)
(* is the fixed text, err the exception text appended to it (if any).      *)
(***************************************************************************)
Reason(kind, err) == [kind |-> kind, err |-> err]
NoResultsFound == Reason("No results found.", "none")
NoSuitableMatch == Reason("No suitable match found", "none")
NoDownloadUrl == Reason("Failed to get download URL from streaming instance", "none")
ERROR_RATE_LIMITED == Reason("Failed to fetch album metadata after matching, try again next run.", "none")
FailedToDownload(e) == Reason("Failed to download", e)
\* Variant of PostDownloadError with the text of the download failure.
PostDownloadError_AsDownloadFailure(e) == Reason("Failed to download", e)
PostDownloadError(e) == Reason("Post-download error", e)

\* Exceptions a download attempt can end with: before the target file is
\* opened (connection error, raise_for_status) or while streaming into it.
DownloadErrors == {"HTTPStatusError", "ReadError"}
\* Exceptions of the post-download steps.
PostErrors == {"CoverError", "TaggingError", "LyricsError"}

(***************************************************************************)
(* Dictionaries are functions with a finite domain.                        *)
(***************************************************************************)
EmptyDict == [k \in {} |-> 0]
DictSet(d, key, value) == [k \in DOMAIN d \cup {key} |-> IF k = key THEN value ELSE d[k]]
DictDel(d, key) == [k \in DOMAIN d \ {key} |-> d[k]]
DictRestrict(d, keys) == [k \in DOMAIN d \cap keys |-> d[k]]

\* A path is the sequence of its components below the working directory,
\* which is <<>>.  CONFIG_DOWNLOAD_PATH is the download root.
CONFIG_DOWNLOAD_PATH == <<"downloads">>
\* The rows' artist and album: the tracks are by one artist, each on an
\* album of its own.
ArtistOf(t) == 1
AlbumOf(t) == t
get_download_path(artist, album) == CONFIG_DOWNLOAD_PATH \o <<artist, album>>
\* A file name is its stem and its suffix.  The worker joins
\* DownloadTrackData.download_path with title and extension: with
\* preferTidalNaming off the save path is a function of the playlist row's
\* data.
FileName(stem, suffix) == [stem |-> stem, suffix |-> suffix]
TrackSavePath(t) ==
    Append(get_download_path(ArtistOf(t), AlbumOf(t)), FileName(t, ".flac"))
\* Path.with_suffix.
with_suffix(path, suffix) == [path EXCEPT ![Len(path)].suffix = suffix]
\* _fetch_lyrics' lyrics_path: download_path joined with the title and ".lrc".
LyricsPath(t) ==
    Append(get_download_path(ArtistOf(t), AlbumOf(t)), FileName(t, ".lrc"))
\* _download_cover_art's cover_path: the name tempfile gives the cover file
\* made for the job of a row; no two jobs get the same name.
CoverPath(row) == <<"tmp", FileName(row, ".jpg")>>

\* os.path.dirname, os.listdir, os.makedirs(exist_ok=True).
dirname(path) == SubSeq(path, 1, Len(path) - 1)
listdir(fs, ds, dir) ==
    {p \in fs \cup ds : Len(p) = Len(dir) + 1 /\ SubSeq(p, 1, Len(dir)) = dir}
makedirs(ds, dir) == ds \cup {SubSeq(dir, 1, k) : k \in 1..Len(dir)}

\* _delete_track's loop over the parent directories: a directory that is
\* empty is removed and its parent looked at, up to the working directory,
\* which holds the program's own files.
RECURSIVE RemoveEmptyParents(_, _, _)
RemoveEmptyParents(ds, fs, dir) ==
    IF dir # <<>> /\ dir \in ds /\ listdir(fs, ds, dir) = {}
    THEN RemoveEmptyParents(ds \ {dir}, fs, dirname(dir))
    ELSE ds

\* _delete_track: <<files, directories>> after the call.
_delete_track(fs, ds, path) ==
    IF path \notin fs
    THEN <<fs, ds>>
    ELSE <<fs \ {path}, RemoveEmptyParents(ds, fs \ {path}, dirname(path))>>

\* _delete_track for each of the paths, one after the other.
RECURSIVE DeleteTracks(_, _, _)
DeleteTracks(paths, fs, ds) ==
    IF paths = {}
    THEN <<fs, ds>>
    ELSE LET path == CHOOSE q \in paths : TRUE
             after == _delete_track(fs, ds, path)
         IN DeleteTracks(paths \ {path}, after[1], after[2])
\* An Optional[bool] is the set of the values it holds: None is the empty set.
None == {}
Some(b) == {b}
OptionalBool == {None, Some(TRUE), Some(FALSE)}
CompletedDownload(path, lyrics, unsynced_exists) ==
    [path |-> path, lyrics |-> lyrics, unsynced_exists |-> unsynced_exists]

VARIABLES
    playlist,             \* spotify_tracks: the rows' full_title, in order
    CONFIG_RETRY_FAILED,  \* downloader.retryFailed of this run
    CONFIG_SYNC,          \* downloader.sync of this run
    completed_downloads,  \* self.completed_downloads
    failed_downloads,     \* self.failed_downloads
    completed_json,       \* document at PATH_CACHE_COMPLETED_DOWNLOADS
    failed_json,          \* document at PATH_CACHE_FAILED_DOWNLOADS
    files,                \* paths of the audio files that exist on disk
    dirs,                 \* paths of the directories that exist on disk
    download_queue,       \* asyncio.Queue: rows of the resolved jobs, FIFO
    unfinished,           \* the queue's count of jobs put and not task_done
    pc,                   \* position of run(): start, next, search, url, album, done
    idx,                  \* playlist row of the resolution loop
    query,                \* index of the query last issued for a row
    attempt,              \* attempts made of the current API call
    error,                \* _search_track's local error
    wpc,                  \* position of each worker
    wjob,                 \* row of the job a worker holds (0: none)
    wattempt,             \* download attempts a worker has made for its job
    werror,               \* a worker's local error
    run_no,               \* number of the current run
    searched,             \* history: rows a search request was issued for, this run
    enqueued,             \* history: rows put on download_queue, this run
    tagged,               \* history: rows whose job the Tagger was invoked for
    lyrics_fetched,       \* history: rows whose job the Lyrics Fetcher was invoked for
    start_failed,         \* history: keys of failed_downloads when the run's loop started
    resolved_titles,      \* history: full_titles resolved successfully, this run
    no_match_now,         \* history: full_titles whose resolution ended in no-match, this run
    no_match_before,      \* history: the same, for the earlier runs
    start_completed,      \* history: keys of completed_downloads after the run's sync pass
    completed_rows,       \* history: rows whose job reached _cache_completed_download
    CONFIG_DOWNLOAD_LYRICS,           \* songs.lyrics of this run
    CONFIG_DOWNLOAD_UNSYNCED_LYRICS,  \* songs.unsyncedLyrics of this run
    lrclib,               \* the JSON object the lyrics service answers a request with
    lyrics_tasks,         \* position of the backfill coroutine made for each row
    task_attempt,         \* failed attempts of a backfill coroutine's lyrics request
    lyrics_attempt,       \* failed attempts of a worker's lyrics request
    args,                 \* arguments of the call of a function under examination
    result                \* what that call returned

cfgvars == <<playlist, CONFIG_RETRY_FAILED, CONFIG_SYNC, run_no,
             CONFIG_DOWNLOAD_LYRICS, CONFIG_DOWNLOAD_UNSYNCED_LYRICS, lrclib>>
cachevars == <<completed_downloads, failed_downloads, completed_json, failed_json>>
loopvars == <<pc, idx, query, attempt, error>>
workervars == <<wpc, wjob, wattempt, werror>>
queuevars == <<download_queue, unfinished>>
lyricsvars == <<lyrics_tasks, task_attempt, lyrics_attempt>>
callvars == <<args, result>>
histvars == <<searched, enqueued, tagged, lyrics_fetched, start_failed,
              resolved_titles, no_match_now, no_match_before, start_completed,
              completed_rows>>
vars == <<cfgvars, cachevars, files, dirs, loopvars, workervars, queuevars, histvars,
          lyricsvars, callvars>>

(***************************************************************************)
(* Inputs.  A playlist is a non-empty sequence of rows; the same           *)
(* full_title may occur in several rows (load_spotify_playlist keys the    *)
(* rows by index).  Titles are named in order of first occurrence.         *)
(***************************************************************************)
FirstOccurrenceOrder(p) ==
    \A i \in 1..Len(p) : \A t \in 1..(p[i] - 1) : \E j \in 1..(i - 1) : p[j] = t
Playlists ==
    {p \in UNION {[1..n -> Titles] : n \in 1..MaxTracks} : FirstOccurrenceOrder(p)}

\* Reasons found in a failed.json left by an earlier run.
LoadedReasons == {NoSuitableMatch, ERROR_RATE_LIMITED}

(***************************************************************************)
(* Cache lookups and updates.                                              *)
(***************************************************************************)
NoReason == Reason("None", "none")
_is_downloaded(completed, t) == t \in DOMAIN completed
_is_failed(failed, t) == t \in DOMAIN failed
_fail_reason(failed, t) == IF t \in DOMAIN failed THEN failed[t] ELSE NoReason

\* The document a dictionary is saved to becomes that dictionary, whole.
save_json_file(document, data) == data
\* A document that is absent is loaded as the empty dictionary.
load_json_file(document) == document

\* Variant of SkipsFailedTrack without the exception for rate-limited tracks.
SkipsFailedTrack_IgnoringRateLimit(retry_failed, failed, t) ==
    /\ ~retry_failed
    /\ _is_failed(failed, t)

\* _process_track's test for leaving a failed track alone.
SkipsFailedTrack(retry_failed, failed, t) ==
    /\ ~retry_failed
    /\ _is_failed(failed, t)
    /\ _fail_reason(failed, t) # ERROR_RATE_LIMITED

\* Variant of _cache_failed_song that stores nothing.
_cache_failed_song_Dropped(failed, document, t, reason) == <<failed, document>>

\* Variant of _cache_failed_song that overwrites the entry of the track.
_cache_failed_song_Overwriting(failed, document, t, reason) ==
    <<DictSet(failed, t, reason), save_json_file(document, DictSet(failed, t, reason))>>

\* _cache_failed_song: <<failed_downloads, failed.json>> after the call.
_cache_failed_song(failed, document, t, reason) ==
    IF t \in DOMAIN failed
    THEN <<failed, document>>
    ELSE <<DictSet(failed, t, reason), save_json_file(document, DictSet(failed, t, reason))>>

\* Variant of RemoveFromFailed that keeps the failed entry.
RemoveFromFailed_Kept(failed, document, t) == <<failed, document>>

\* _search_track on success: a failed entry of the track is dropped and saved.
RemoveFromFailed(failed, document, t) ==
    IF t \in DOMAIN failed
    THEN <<DictDel(failed, t), save_json_file(document, DictDel(failed, t))>>
    ELSE <<failed, document>>

\* Variant of ContinuesWithNextQuery that also goes on after a missing asset URL.
ContinuesWithNextQuery_AlsoWithoutUrl(reason) == reason \in {NoSuitableMatch, NoDownloadUrl}

\* Variant of ContinuesWithNextQuery that also goes on after a failed album fetch.
ContinuesWithNextQuery_AlsoAfterAlbumFailure(reason) ==
    reason \in {NoSuitableMatch, ERROR_RATE_LIMITED}

\* _search_track's reaction to the error dict _match_track returned: TRUE to
\* go on with the next query, FALSE to stop searching.
ContinuesWithNextQuery(reason) == reason = NoSuitableMatch

\* _cache_completed_download: <<completed_downloads, completed.json>> after the call.
_cache_completed_download(completed, document, t, path, found_lyrics, unsynced_exists) ==
    LET entry == CompletedDownload(path, found_lyrics, unsynced_exists)
    IN <<DictSet(completed, t, entry), save_json_file(document, DictSet(completed, t, entry))>>

\* Variant of WorkerCacheFailed that keeps an entry already there.
WorkerCacheFailed_KeepingFirst(failed, document, t, reason) ==
    IF t \in DOMAIN failed
    THEN <<failed, document>>
    ELSE <<DictSet(failed, t, reason), save_json_file(document, DictSet(failed, t, reason))>>

\* The worker's record of a failed job: written whatever entry is there.
WorkerCacheFailed(failed, document, t, reason) ==
    <<DictSet(failed, t, reason), save_json_file(document, DictSet(failed, t, reason))>>

(***************************************************************************)
(* _sync_tracks.                                                           *)
(***************************************************************************)
CurrentTitles(p) == {p[i] : i \in 1..Len(p)}
SyncRuns(sync, completed) == completed # EmptyDict /\ sync
\* Variant of SyncCompleted that removes one stale entry in a pass.
SyncCompleted_OnePerPass(sync, completed, current) ==
    IF SyncRuns(sync, completed) /\ DOMAIN completed \ current # {}
    THEN DictDel(completed, CHOOSE t \in DOMAIN completed \ current : TRUE)
    ELSE completed

SyncCompleted(sync, completed, current) ==
    IF SyncRuns(sync, completed) THEN DictRestrict(completed, current) ELSE completed
SyncFailed(sync, completed, failed, current) ==
    IF SyncRuns(sync, completed) THEN DictRestrict(failed, current) ELSE failed
SyncDeletedPaths(sync, completed, current) ==
    IF SyncRuns(sync, completed)
    THEN UNION {{completed[t].path, with_suffix(completed[t].path, ".lrc")} :
                    t \in DOMAIN completed \ current}
    ELSE {}

\* One pass of _sync_tracks over the maps, completed.json and the disk.
_sync_tracks(sync, completed, failed, document, current, fs, ds) ==
    LET synced == SyncCompleted(sync, completed, current)
        disk == DeleteTracks(SyncDeletedPaths(sync, completed, current), fs, ds)
    IN [completed |-> synced,
        failed |-> SyncFailed(sync, completed, failed, current),
        document |-> IF synced # completed
                     THEN save_json_file(document, synced)
                     ELSE document,
        files |-> disk[1],
        dirs |-> disk[2]]

(***************************************************************************)
(* Lyrics.  The service answers a request with a JSON object; the value of *)
(* "syncedLyrics" and of "plainLyrics" is null (or the key is missing), an *)
(* empty string, or a text.                                                *)
(***************************************************************************)
\* No function is under examination.
NoCall == [op |-> "none"]

LyricsValues == {"null", "", "text"}
LyricsData == [syncedLyrics : LyricsValues, plainLyrics : LyricsValues]
\* Python's "not lyrics", and "is not None".
IsFalsy(value) == value \in {"null", ""}
IsNotNone(value) == value # "null"

\* What _fetch_lyrics returns, and the lyrics it wrote to the .lrc file.
FetchedLyrics(found_lyrics, unsynced_exists, written) ==
    [found_lyrics |-> found_lyrics, unsynced_exists |-> unsynced_exists, written |-> written]

\* Variant of _fetch_lyrics that reports unsynced lyrics as unknown when only
\* synced lyrics are wanted and none were found.
_fetch_lyrics_UnsyncedUnknown(download_lyrics, download_unsynced, answered, data) ==
    IF ~download_lyrics \/ ~answered
    THEN FetchedLyrics(FALSE, None, "none")
    ELSE IF IsFalsy(data.syncedLyrics) /\ ~download_unsynced
    THEN FetchedLyrics(FALSE, None, "none")
    ELSE LET lyrics == IF IsFalsy(data.syncedLyrics) /\ download_unsynced
                       THEN data.plainLyrics ELSE data.syncedLyrics
             lyrics_type == IF IsFalsy(data.syncedLyrics) /\ download_unsynced
                            THEN "unsynced" ELSE "synced"
         IN IF IsFalsy(lyrics)
            THEN FetchedLyrics(FALSE, Some(FALSE), "none")
            ELSE FetchedLyrics(TRUE, Some(TRUE), lyrics_type)

\* _fetch_lyrics.  answered: one of the RETRY_COUNT_API attempts of the
\* request returned, with data.
_fetch_lyrics(download_lyrics, download_unsynced, answered, data) ==
    IF ~download_lyrics \/ ~answered
    THEN FetchedLyrics(FALSE, None, "none")
    ELSE IF IsFalsy(data.syncedLyrics) /\ ~download_unsynced
    THEN FetchedLyrics(FALSE, Some(IsNotNone(data.plainLyrics)), "none")
    ELSE LET lyrics == IF IsFalsy(data.syncedLyrics) /\ download_unsynced
                       THEN data.plainLyrics ELSE data.syncedLyrics
             lyrics_type == IF IsFalsy(data.syncedLyrics) /\ download_unsynced
                            THEN "unsynced" ELSE "synced"
         IN IF IsFalsy(lyrics)
            THEN FetchedLyrics(FALSE, Some(FALSE), "none")
            ELSE FetchedLyrics(TRUE, Some(TRUE), lyrics_type)

\* Variant of _check_missing_lyrics that looks for lyrics whenever they are
\* missing and unsynced lyrics are not known to be absent.
_check_missing_lyrics_WheneverNotAbsent(download_lyrics, download_unsynced, completed, t) ==
    /\ download_lyrics
    /\ t \in DOMAIN completed
    /\ completed[t].lyrics = FALSE
    /\ completed[t].unsynced_exists # Some(FALSE)

\* _check_missing_lyrics: a backfill coroutine is returned.
_check_missing_lyrics(download_lyrics, download_unsynced, completed, t) ==
    /\ download_lyrics
    /\ t \in DOMAIN completed
    /\ LET lyrics_missing == completed[t].lyrics = FALSE
           unsynced_exists == completed[t].unsynced_exists
           find_lyrics == /\ lyrics_missing
                          /\ unsynced_exists # Some(TRUE)
                          /\ unsynced_exists # Some(FALSE)
           find_unsynced == /\ lyrics_missing
                            /\ unsynced_exists # Some(FALSE)
                            /\ download_unsynced
       IN find_lyrics \/ find_unsynced

\* self.semaphore = asyncio.Semaphore(LYRICS_DOWNLOAD_COUNT).
LYRICS_DOWNLOAD_COUNT == 5

(***************************************************************************)
(* The state after the program is started: nothing loaded yet, the two     *)
(* documents and the files as an earlier run can have left them.           *)
(***************************************************************************)
Init ==
    /\ playlist \in Playlists
    /\ CONFIG_RETRY_FAILED \in BOOLEAN
    /\ CONFIG_SYNC \in BOOLEAN
    /\ \E C \in SUBSET Titles :
        /\ completed_json = [t \in C |-> CompletedDownload(TrackSavePath(t), TRUE, Some(TRUE))]
        /\ failed_json \in UNION {[F -> LoadedReasons] : F \in SUBSET (Titles \ C)}
        /\ files = {TrackSavePath(t) : t \in C} \cup {LyricsPath(t) : t \in C}
        /\ dirs = UNION {makedirs({CONFIG_DOWNLOAD_PATH}, dirname(TrackSavePath(t))) : t \in C}
                    \cup {CONFIG_DOWNLOAD_PATH}
    /\ completed_downloads = EmptyDict
    /\ failed_downloads = EmptyDict
    /\ download_queue = <<>>
    /\ unfinished = 0
    /\ pc = "start"
    /\ idx = 1
    /\ query = 1
    /\ attempt = 0
    /\ error = NoResultsFound
    /\ wpc = [w \in Workers |-> "off"]
    /\ wjob = [w \in Workers |-> 0]
    /\ wattempt = [w \in Workers |-> 0]
    /\ werror = [w \in Workers |-> "none"]
    /\ run_no = 1
    /\ searched = {}
    /\ enqueued = {}
    /\ tagged = {}
    /\ lyrics_fetched = {}
    /\ start_failed = {}
    /\ resolved_titles = {}
    /\ no_match_now = {}
    /\ no_match_before = {}
    /\ start_completed = {}
    /\ completed_rows = {}
    /\ CONFIG_DOWNLOAD_LYRICS = TRUE
    /\ CONFIG_DOWNLOAD_UNSYNCED_LYRICS = FALSE
    /\ lrclib = [syncedLyrics |-> "text", plainLyrics |-> "text"]
    /\ lyrics_tasks = [r \in 1..Len(playlist) |-> "none"]
    /\ task_attempt = [r \in 1..Len(playlist) |-> 0]
    /\ lyrics_attempt = [w \in Workers |-> 0]
    /\ args = NoCall
    /\ result = NoCall

(***************************************************************************)
(* The playlist file: it exists or not, and each of its rows has an artist *)
(* and a track name (the row's full_title is given) or lacks one (0).      *)
(* load_spotify_playlist keeps the rows that have both, in order.          *)
(***************************************************************************)
NoTrack == 0
PlaylistFile(exists, rows) == [exists |-> exists, rows |-> rows]
HasArtistAndTrack(row) == row # NoTrack
load_spotify_playlist(file) ==
    IF ~file.exists THEN <<>> ELSE SelectSeq(file.rows, HasArtistAndTrack)

\* Variant of _initialize_resources that goes on without a track.
_initialize_resources_WithoutTracks(spotify_tracks) == TRUE
\* _initialize_resources' result: False when the playlist gave no track (the
\* documents are then not loaded).
_initialize_resources(spotify_tracks) == spotify_tracks # <<>>

(***************************************************************************)
(* run(), up to the resolution loop: _initialize_resources loads the two   *)
(* documents, _sync_tracks prunes them, _start_workers creates the workers *)
(* (each then waits in download_queue.get()).  Without a track run()       *)
(* returns at once.                                                        *)
(***************************************************************************)
StartRun ==
    /\ pc = "start"
    /\ IF ~_initialize_resources(playlist)
       THEN /\ pc' = "done"
            /\ UNCHANGED <<cfgvars, lyricsvars, callvars, cachevars, files, dirs, idx, query,
                           attempt, error, workervars, queuevars, histvars>>
       ELSE /\ LET loaded_failed == load_json_file(failed_json)
                   loaded_completed == load_json_file(completed_json)
                   after == _sync_tracks(CONFIG_SYNC, loaded_completed, loaded_failed, completed_json,
                                         CurrentTitles(playlist), files, dirs)
               IN /\ completed_downloads' = after.completed
                  /\ failed_downloads' = after.failed
                  /\ completed_json' = after.document
                  /\ files' = after.files
                  /\ dirs' = after.dirs
                  /\ start_failed' = DOMAIN failed_downloads'
                  /\ start_completed' = DOMAIN completed_downloads'
            /\ wpc' = [w \in Workers |-> "idle"]
            /\ pc' = "next"
            /\ UNCHANGED <<cfgvars, lyricsvars, callvars, failed_json, idx, query, attempt, error, wjob, wattempt, werror,
                           queuevars, searched, enqueued, tagged, lyrics_fetched,
                           resolved_titles, no_match_now, no_match_before, completed_rows>>

(***************************************************************************)
(* _process_track for the row idx: skip a downloaded track, skip a failed  *)
(* one as the policy says, else _queue_track_for_download: the queries are *)
(* generated and the search request of the first one is issued.            *)
(***************************************************************************)
ProcessTrack ==
    /\ pc = "next"
    /\ idx <= Len(playlist)
    /\ LET t == playlist[idx] IN
       IF _is_downloaded(completed_downloads, t)
       THEN /\ lyrics_tasks' =
                 IF _check_missing_lyrics(CONFIG_DOWNLOAD_LYRICS,
                                          CONFIG_DOWNLOAD_UNSYNCED_LYRICS,
                                          completed_downloads, t)
                 THEN [lyrics_tasks EXCEPT ![idx] = "scheduled"]
                 ELSE lyrics_tasks
            /\ idx' = idx + 1
            /\ UNCHANGED <<pc, query, attempt, error, searched>>
       ELSE IF SkipsFailedTrack(CONFIG_RETRY_FAILED, failed_downloads, t)
       THEN /\ idx' = idx + 1
            /\ UNCHANGED <<pc, query, attempt, error, searched, lyrics_tasks>>
       ELSE /\ pc' = "search"
            /\ query' = 1
            /\ attempt' = 0
            /\ error' = NoResultsFound
            /\ searched' = searched \cup {idx}
            /\ UNCHANGED <<idx, lyrics_tasks>>
    /\ UNCHANGED <<cfgvars, task_attempt, lyrics_attempt, callvars, cachevars, files, dirs, workervars, queuevars, enqueued, tagged,
                   lyrics_fetched, start_failed, start_completed,
                   completed_rows, resolved_titles, no_match_now,
                   no_match_before>>

\* _search_track leaves its loop over the queries without a job: the error
\* is cached and logged, and the resolution loop goes to the next row.
ResolutionFails(reason) ==
    /\ LET t == playlist[idx]
           after == _cache_failed_song(failed_downloads, failed_json, t, reason)
       IN /\ failed_downloads' = after[1]
          /\ failed_json' = after[2]
          /\ no_match_now' = IF reason = NoSuitableMatch
                             THEN no_match_now \cup {t} ELSE no_match_now
    /\ pc' = "next"
    /\ idx' = idx + 1
    /\ attempt' = 0
    /\ error' = NoResultsFound
    /\ UNCHANGED <<cfgvars, lyricsvars, callvars, completed_downloads, completed_json, files, dirs, query, workervars,
                   queuevars, searched, enqueued, tagged, lyrics_fetched, start_failed, start_completed,
                   completed_rows,
                   resolved_titles, no_match_before>>

\* "continue" of the loop over the queries: the next query's search request
\* is issued, or the loop ends.
NextQuery(reason) ==
    IF query < NumQueries
    THEN /\ pc' = "search"
         /\ query' = query + 1
         /\ attempt' = 0
         /\ error' = reason
         /\ UNCHANGED <<cfgvars, lyricsvars, callvars, cachevars, files, dirs, idx, workervars, queuevars, histvars>>
    ELSE ResolutionFails(reason)

\* _match_track returned an error dict: it becomes _search_track's error,
\* and the loop over the queries continues or is left ("break").
MatchReturnsError(reason) ==
    IF ContinuesWithNextQuery(reason)
    THEN NextQuery(reason)
    ELSE ResolutionFails(reason)

\* The search request raised (or its answer could not be decoded): sleep,
\* then the next attempt; after RETRY_COUNT_API attempts, the next query.
SearchRaises ==
    /\ pc = "search"
    /\ IF LoopContinues(attempt + 1, RETRY_COUNT_API)
       THEN /\ attempt' = attempt + 1
            /\ UNCHANGED <<cfgvars, lyricsvars, callvars, cachevars, files, dirs, pc, idx, query, error, workervars,
                           queuevars, histvars>>
       ELSE NextQuery(error)

\* The search returned no item.
SearchFindsNothing ==
    /\ pc = "search"
    /\ NextQuery(error)

\* The search returned items and _match_track accepted none of them.
SearchMatchesNothing ==
    /\ pc = "search"
    /\ MatchReturnsError(NoSuitableMatch)

\* _match_track accepted a candidate: the asset-URL request is issued.
SearchMatches ==
    /\ pc = "search"
    /\ pc' = "url"
    /\ attempt' = 0
    /\ UNCHANGED <<cfgvars, lyricsvars, callvars, cachevars, files, dirs, idx, query, error, workervars, queuevars,
                   histvars>>

\* _get_download_url got an answer with a manifest: the album-metadata
\* request is issued.
UrlFetched ==
    /\ pc = "url"
    /\ pc' = "album"
    /\ attempt' = 0
    /\ UNCHANGED <<cfgvars, lyricsvars, callvars, cachevars, files, dirs, idx, query, error, workervars, queuevars,
                   histvars>>

\* _get_download_url got an answer without data and returns "".
UrlHasNoData ==
    /\ pc = "url"
    /\ MatchReturnsError(NoDownloadUrl)

\* The asset-URL request raised: sleep, then the next attempt; after
\* RETRY_COUNT_API attempts _get_download_url returns "".
UrlRaises ==
    /\ pc = "url"
    /\ IF LoopContinues(attempt + 1, RETRY_COUNT_API)
       THEN /\ attempt' = attempt + 1
            /\ UNCHANGED <<cfgvars, lyricsvars, callvars, cachevars, files, dirs, pc, idx, query, error, workervars,
                           queuevars, histvars>>
       ELSE MatchReturnsError(NoDownloadUrl)

\* fetch_album_data returned the album's data: _match_track returns the
\* job, _search_track drops a failed entry of the track, and
\* _queue_track_for_download puts the job on the queue.
AlbumFetched ==
    /\ pc = "album"
    /\ LET t == playlist[idx]
           after == RemoveFromFailed(failed_downloads, failed_json, t)
       IN /\ failed_downloads' = after[1]
          /\ failed_json' = after[2]
          /\ resolved_titles' = resolved_titles \cup {t}
    /\ download_queue' = Append(download_queue, idx)
    /\ unfinished' = unfinished + 1
    /\ enqueued' = enqueued \cup {idx}
    /\ pc' = "next"
    /\ idx' = idx + 1
    /\ attempt' = 0
    /\ error' = NoResultsFound
    /\ UNCHANGED <<cfgvars, lyricsvars, callvars, completed_downloads, completed_json, files, dirs, query, workervars,
                   searched, tagged, lyrics_fetched, start_failed, start_completed,
                   completed_rows, no_match_now,
                   no_match_before>>

\* fetch_album_data got an answer without data and returns {}.
AlbumHasNoData ==
    /\ pc = "album"
    /\ MatchReturnsError(ERROR_RATE_LIMITED)

\* The album request raised (sleep) or was answered "Upstream rate limited":
\* the next attempt; after RETRY_COUNT_API attempts fetch_album_data returns {}.
AlbumAttemptFails ==
    /\ pc = "album"
    /\ IF LoopContinues(attempt + 1, RETRY_COUNT_API)
       THEN /\ attempt' = attempt + 1
            /\ UNCHANGED <<cfgvars, lyricsvars, callvars, cachevars, files, dirs, pc, idx, query, error, workervars,
                           queuevars, histvars>>
       ELSE MatchReturnsError(ERROR_RATE_LIMITED)

(***************************************************************************)
(* _download_worker.                                                       *)
(***************************************************************************)
\* Variant of get_nowait that leaves the job on the queue.
get_nowait_Peeking(queue) == queue

\* The queue after get() has returned its first job.
get_nowait(queue) == Tail(queue)

\* download_queue.get() returns a job: the directory is made, the save
\* path computed, and the first download request issued.
WorkerGetsJob(w) ==
    /\ wpc[w] = "idle"
    /\ download_queue # <<>>
    /\ wjob' = [wjob EXCEPT ![w] = Head(download_queue)]
    /\ download_queue' = get_nowait(download_queue)
    /\ wpc' = [wpc EXCEPT ![w] = "download"]
    /\ wattempt' = [wattempt EXCEPT ![w] = 0]
    /\ werror' = [werror EXCEPT ![w] = "none"]
    /\ LET t == playlist[Head(download_queue)]
       IN dirs' = makedirs(dirs, get_download_path(ArtistOf(t), AlbumOf(t)))
    /\ UNCHANGED <<cfgvars, lyricsvars, callvars, cachevars, files, loopvars, unfinished, histvars>>

\* The request raised before the file was opened: sleep.
DownloadRaisesBeforeOpen(w) ==
    /\ wpc[w] = "download"
    /\ werror' = [werror EXCEPT ![w] = "HTTPStatusError"]
    /\ wattempt' = [wattempt EXCEPT ![w] = @ + 1]
    /\ wpc' = [wpc EXCEPT ![w] = "sleep"]
    /\ UNCHANGED <<cfgvars, lyricsvars, callvars, cachevars, files, dirs, loopvars, wjob, queuevars, histvars>>

\* The response is good: the file at the save path is opened for writing
\* (created or truncated) and the first chunk awaited.
DownloadOpensFile(w) ==
    /\ wpc[w] = "download"
    /\ files' = files \cup {TrackSavePath(playlist[wjob[w]])}
    /\ wpc' = [wpc EXCEPT ![w] = "stream"]
    /\ UNCHANGED <<cfgvars, lyricsvars, callvars, cachevars, dirs, loopvars, wjob, wattempt, werror, queuevars, histvars>>

\* Reading a chunk raised: the file stays as far as it was written; sleep.
StreamRaises(w) ==
    /\ wpc[w] = "stream"
    /\ werror' = [werror EXCEPT ![w] = "ReadError"]
    /\ wattempt' = [wattempt EXCEPT ![w] = @ + 1]
    /\ wpc' = [wpc EXCEPT ![w] = "sleep"]
    /\ UNCHANGED <<cfgvars, lyricsvars, callvars, cachevars, files, dirs, loopvars, wjob, queuevars, histvars>>

\* Variant of task_done that leaves the count of unfinished jobs.
task_done_Missing(unfinished_tasks) == unfinished_tasks

\* download_queue.task_done(): one job less is unfinished.
task_done(unfinished_tasks) == unfinished_tasks - 1

\* The worker's job is over: task_done, and the worker waits for the next.
JobDone(w) ==
    /\ unfinished' = task_done(unfinished)
    /\ wpc' = [wpc EXCEPT ![w] = "idle"]
    /\ wjob' = [wjob EXCEPT ![w] = 0]
    /\ wattempt' = [wattempt EXCEPT ![w] = 0]
    /\ werror' = [werror EXCEPT ![w] = "none"]

\* The sleep after a failed attempt ends: the next attempt's request is
\* issued, or, after RETRY_COUNT_DOWNLOAD attempts, the job is recorded as
\* failed with the last error.
SleepEnds(w) ==
    /\ wpc[w] = "sleep"
    /\ IF LoopContinues(wattempt[w], RETRY_COUNT_DOWNLOAD)
       THEN /\ wpc' = [wpc EXCEPT ![w] = "download"]
            /\ UNCHANGED <<cfgvars, lyricsvars, callvars, cachevars, files, dirs, loopvars, wjob, wattempt, werror,
                           queuevars, histvars>>
       ELSE /\ LET after == WorkerCacheFailed(failed_downloads, failed_json,
                                playlist[wjob[w]], FailedToDownload(werror[w]))
               IN /\ failed_downloads' = after[1]
                  /\ failed_json' = after[2]
            /\ JobDone(w)
            /\ UNCHANGED <<cfgvars, lyricsvars, callvars, completed_downloads, completed_json, files, dirs, loopvars,
                           download_queue, histvars>>

\* The last chunk was written: downloaded.  _add_metadata is entered; the
\* job has a cover identifier (the album data of a track carries one), so
\* _download_cover_art makes the temporary cover file and awaits the cover
\* download.
StreamEnds(w) ==
    /\ wpc[w] = "stream"
    /\ wpc' = [wpc EXCEPT ![w] = "tag"]
    /\ tagged' = tagged \cup {wjob[w]}
    /\ files' = files \cup {CoverPath(wjob[w])}
    /\ UNCHANGED <<cfgvars, lyricsvars, callvars, cachevars, dirs, loopvars, wjob, wattempt, werror, queuevars,
                   searched, enqueued, lyrics_fetched, start_failed, start_completed,
                   completed_rows, resolved_titles,
                   no_match_now, no_match_before>>

\* The except branch of the post-download steps; disk is the set of files
\* the step that raised has left.
PostDownloadFails(w, e, disk) ==
    /\ LET after == WorkerCacheFailed(failed_downloads, failed_json,
                        playlist[wjob[w]], PostDownloadError(e))
       IN /\ failed_downloads' = after[1]
          /\ failed_json' = after[2]
    /\ files' = disk
    /\ JobDone(w)
    /\ lyrics_attempt' = [lyrics_attempt EXCEPT ![w] = 0]
    /\ UNCHANGED <<cfgvars, lyrics_tasks, task_attempt, callvars, completed_downloads,
                   completed_json, dirs, loopvars, download_queue, histvars>>

\* The post-download steps went through: the completed download is cached
\* with what _fetch_lyrics returned, and the job is over; disk is the set of
\* files when _fetch_lyrics was entered.
CompleteJob(w, fetched, disk) ==
    /\ LET t == playlist[wjob[w]]
           after == _cache_completed_download(completed_downloads, completed_json, t,
                        TrackSavePath(t), fetched.found_lyrics, fetched.unsynced_exists)
       IN /\ completed_downloads' = after[1]
          /\ completed_json' = after[2]
          /\ files' = IF fetched.written # "none" THEN disk \cup {LyricsPath(t)} ELSE disk
    /\ completed_rows' = completed_rows \cup {wjob[w]}
    /\ lyrics_attempt' = [lyrics_attempt EXCEPT ![w] = 0]
    /\ JobDone(w)
    /\ UNCHANGED <<cfgvars, lyrics_tasks, task_attempt, callvars, failed_downloads,
                   failed_json, dirs, loopvars, download_queue, searched, enqueued, tagged,
                   start_failed, resolved_titles, no_match_now, no_match_before,
                   start_completed>>

\* The cover was downloaded, the tag writer returned and _add_metadata
\* removed the cover file: _fetch_lyrics is entered.  With lyrics wanted its
\* request is awaited; else it returns at once.
TaggingReturns(w) ==
    /\ wpc[w] = "tag"
    /\ lyrics_fetched' = lyrics_fetched \cup {wjob[w]}
    /\ IF CONFIG_DOWNLOAD_LYRICS
       THEN /\ wpc' = [wpc EXCEPT ![w] = "lyrics"]
            /\ files' = files \ {CoverPath(wjob[w])}
            /\ UNCHANGED <<cfgvars, lyricsvars, callvars, cachevars, dirs, loopvars,
                           wjob, wattempt, werror, queuevars, searched, enqueued, tagged,
                           start_failed, start_completed, completed_rows, resolved_titles,
                           no_match_now, no_match_before>>
       ELSE CompleteJob(w, _fetch_lyrics(CONFIG_DOWNLOAD_LYRICS,
                                         CONFIG_DOWNLOAD_UNSYNCED_LYRICS, FALSE, lrclib),
                        files \ {CoverPath(wjob[w])})

\* The cover download raised: _download_cover_art removes the cover file and
\* raises again.
CoverDownloadRaises(w) ==
    /\ wpc[w] = "tag"
    /\ PostDownloadFails(w, "CoverError", files \ {CoverPath(wjob[w])})

\* The cover was downloaded and the tag writer (_tag_m4a, _tag_flac) raised:
\* _add_metadata is left by the exception, before its os.remove.
TaggingRaises(w) ==
    /\ wpc[w] = "tag"
    /\ PostDownloadFails(w, "TaggingError", files)

\* An attempt of the lyrics request returned: _fetch_lyrics returns, and the
\* completed download is cached.
LyricsReturns(w) ==
    /\ wpc[w] = "lyrics"
    /\ CompleteJob(w, _fetch_lyrics(CONFIG_DOWNLOAD_LYRICS, CONFIG_DOWNLOAD_UNSYNCED_LYRICS,
                                    TRUE, lrclib), files)
    /\ UNCHANGED lyrics_fetched

\* An attempt of the lyrics request raised: after the sleep the next attempt
\* is made, or, after RETRY_COUNT_API attempts, _fetch_lyrics returns.
LyricsRequestRaises(w) ==
    /\ wpc[w] = "lyrics"
    /\ IF LoopContinues(lyrics_attempt[w] + 1, RETRY_COUNT_API)
       THEN /\ lyrics_attempt' = [lyrics_attempt EXCEPT ![w] = lyrics_attempt[w] + 1]
            /\ UNCHANGED <<cfgvars, lyrics_tasks, task_attempt, callvars, cachevars, files,
                           dirs, loopvars, workervars, queuevars, histvars>>
       ELSE /\ CompleteJob(w, _fetch_lyrics(CONFIG_DOWNLOAD_LYRICS,
                                            CONFIG_DOWNLOAD_UNSYNCED_LYRICS, FALSE, lrclib),
                            files)
            /\ UNCHANGED lyrics_fetched

\* _fetch_lyrics raised.
LyricsRaises(w) ==
    /\ wpc[w] = "lyrics"
    /\ PostDownloadFails(w, "LyricsError", files)

(***************************************************************************)
(* _finish_tasks.  The backfill coroutines are gathered: each becomes a    *)
(* task that enters the semaphore, or waits for it, in the order of the    *)
(* rows.  Once they are done and every job put on the queue is done, the   *)
(* workers are cancelled (each waits in get() and holds no job) and run()  *)
(* returns.                                                                *)
(***************************************************************************)
TasksIn(tasks, states) == {r \in DOMAIN tasks : tasks[r] \in states}
GatherStarts ==
    /\ pc = "next"
    /\ idx > Len(playlist)
    /\ TasksIn(lyrics_tasks, {"scheduled"}) # {}
    /\ pc' = "gather"
    /\ lyrics_tasks' =
         [r \in DOMAIN lyrics_tasks |->
            IF lyrics_tasks[r] # "scheduled"
            THEN lyrics_tasks[r]
            ELSE IF Cardinality({q \in TasksIn(lyrics_tasks, {"scheduled"}) : q < r})
                        < LYRICS_DOWNLOAD_COUNT
            THEN "request"
            ELSE "waiting"]
    /\ UNCHANGED <<cfgvars, task_attempt, lyrics_attempt, callvars, cachevars, files, dirs,
                   idx, query, attempt, error, workervars, queuevars, histvars>>

\* The semaphore was released: the coroutine that waited the longest enters
\* it and issues its lyrics request.
BackfillAcquires(r) ==
    /\ lyrics_tasks[r] = "waiting"
    /\ \A q \in TasksIn(lyrics_tasks, {"waiting"}) : r <= q
    /\ Cardinality(TasksIn(lyrics_tasks, {"request"})) < LYRICS_DOWNLOAD_COUNT
    /\ lyrics_tasks' = [lyrics_tasks EXCEPT ![r] = "request"]
    /\ UNCHANGED <<cfgvars, task_attempt, lyrics_attempt, callvars, cachevars, files, dirs,
                   loopvars, workervars, queuevars, histvars>>

\* _download_lyrics_for_cached_tracks after _fetch_lyrics returned: the
\* entry is updated and completed.json saved; the semaphore is left.
BackfillUpdates(r, fetched) ==
    /\ LET t == playlist[r]
           entry == [completed_downloads[t] EXCEPT
                        !.lyrics = fetched.found_lyrics,
                        !.unsynced_exists = fetched.unsynced_exists]
       IN /\ completed_downloads' = DictSet(completed_downloads, t, entry)
          /\ completed_json' = save_json_file(completed_json, completed_downloads')
          /\ files' = IF fetched.written # "none" THEN files \cup {LyricsPath(t)} ELSE files
    /\ lyrics_tasks' = [lyrics_tasks EXCEPT ![r] = "done"]
    /\ task_attempt' = [task_attempt EXCEPT ![r] = 0]
    /\ UNCHANGED <<cfgvars, lyrics_attempt, callvars, failed_downloads, failed_json, dirs,
                   loopvars, workervars, queuevars, histvars>>

\* An attempt of a backfill coroutine's lyrics request returned.
BackfillReturns(r) ==
    /\ lyrics_tasks[r] = "request"
    /\ BackfillUpdates(r, _fetch_lyrics(CONFIG_DOWNLOAD_LYRICS,
                                        CONFIG_DOWNLOAD_UNSYNCED_LYRICS, TRUE, lrclib))

\* An attempt of a backfill coroutine's lyrics request raised.
BackfillRequestRaises(r) ==
    /\ lyrics_tasks[r] = "request"
    /\ IF LoopContinues(task_attempt[r] + 1, RETRY_COUNT_API)
       THEN /\ task_attempt' = [task_attempt EXCEPT ![r] = task_attempt[r] + 1]
            /\ UNCHANGED <<cfgvars, lyrics_tasks, lyrics_attempt, callvars, cachevars, files,
                           dirs, loopvars, workervars, queuevars, histvars>>
       ELSE BackfillUpdates(r, _fetch_lyrics(CONFIG_DOWNLOAD_LYRICS,
                                             CONFIG_DOWNLOAD_UNSYNCED_LYRICS, FALSE, lrclib))

\* _fetch_lyrics raised in a backfill coroutine: the exception is logged.
BackfillRaises(r) ==
    /\ lyrics_tasks[r] = "request"
    /\ lyrics_tasks' = [lyrics_tasks EXCEPT ![r] = "done"]
    /\ task_attempt' = [task_attempt EXCEPT ![r] = 0]
    /\ UNCHANGED <<cfgvars, lyrics_attempt, callvars, cachevars, files, dirs, loopvars,
                   workervars, queuevars, histvars>>

\* Variant of QueueDrained that does not wait for the jobs.
QueueDrained_NoWait(unfinished_tasks) == TRUE
\* download_queue.join() returns: no job is unfinished.
QueueDrained(unfinished_tasks) == unfinished_tasks = 0

\* The paths the CancelledError branches of the workers remove when every
\* worker is cancelled: the track_save_path of each worker that holds a job
\* (completed_successfully is False at every await of the loop).
CancelledWorkersPaths ==
    {TrackSavePath(playlist[wjob[w]]) : w \in {v \in Workers : wjob[v] # 0}}

FinishTasks ==
    /\ \/ pc = "next" /\ TasksIn(lyrics_tasks, {"scheduled"}) = {}
       \/ pc = "gather" /\ TasksIn(lyrics_tasks, {"waiting", "request"}) = {}
    /\ idx > Len(playlist)
    /\ QueueDrained(unfinished)
    /\ pc' = "done"
    /\ wpc' = [w \in Workers |-> "off"]
    /\ files' = files \ CancelledWorkersPaths
    /\ UNCHANGED <<cfgvars, lyricsvars, callvars, cachevars, dirs, idx, query, attempt, error, wjob, wattempt,
                   werror, queuevars, histvars>>

(***************************************************************************)
(* The program is started again on the same playlist, with the documents   *)
(* and files the run before left and a configuration of the user's choice. *)
(***************************************************************************)
NextRun ==
    /\ pc = "done"
    /\ run_no < MaxRuns
    /\ run_no' = run_no + 1
    /\ CONFIG_RETRY_FAILED' \in BOOLEAN
    /\ CONFIG_SYNC' \in BOOLEAN
    /\ completed_downloads' = EmptyDict
    /\ failed_downloads' = EmptyDict
    /\ pc' = "start"
    /\ idx' = 1
    /\ searched' = {}
    /\ enqueued' = {}
    /\ tagged' = {}
    /\ lyrics_fetched' = {}
    /\ start_failed' = {}
    /\ resolved_titles' = {}
    /\ no_match_now' = {}
    /\ no_match_before' = no_match_before \cup no_match_now
    /\ start_completed' = {}
    /\ completed_rows' = {}
    /\ query' = 1
    /\ lyrics_tasks' = [r \in 1..Len(playlist) |-> "none"]
    /\ UNCHANGED <<playlist, CONFIG_DOWNLOAD_LYRICS, CONFIG_DOWNLOAD_UNSYNCED_LYRICS, lrclib,
                   completed_json, failed_json, files, dirs, attempt, error,
                   workervars, queuevars, task_attempt, lyrics_attempt, callvars>>

Next ==
    \/ StartRun
    \/ ProcessTrack
    \/ SearchRaises
    \/ SearchFindsNothing
    \/ SearchMatchesNothing
    \/ SearchMatches
    \/ UrlFetched
    \/ UrlHasNoData
    \/ UrlRaises
    \/ AlbumFetched
    \/ AlbumHasNoData
    \/ AlbumAttemptFails
    \/ \E w \in Workers : WorkerGetsJob(w)
    \/ \E w \in Workers : DownloadRaisesBeforeOpen(w)
    \/ \E w \in Workers : DownloadOpensFile(w)
    \/ \E w \in Workers : StreamRaises(w)
    \/ \E w \in Workers : StreamEnds(w)
    \/ \E w \in Workers : SleepEnds(w)
    \/ \E w \in Workers : TaggingReturns(w)
    \/ \E w \in Workers : CoverDownloadRaises(w)
    \/ \E w \in Workers : TaggingRaises(w)
    \/ \E w \in Workers : LyricsReturns(w)
    \/ \E w \in Workers : LyricsRaises(w)
    \/ FinishTasks

\* One run of the program.
Spec == Init /\ [][Next]_vars

\* The steps of the main task and of a worker task.
MainStep ==
    \/ StartRun
    \/ ProcessTrack
    \/ SearchRaises
    \/ SearchFindsNothing
    \/ SearchMatchesNothing
    \/ SearchMatches
    \/ UrlFetched
    \/ UrlHasNoData
    \/ UrlRaises
    \/ AlbumFetched
    \/ AlbumHasNoData
    \/ AlbumAttemptFails
    \/ FinishTasks
WorkerStep(w) ==
    \/ WorkerGetsJob(w)
    \/ DownloadRaisesBeforeOpen(w)
    \/ DownloadOpensFile(w)
    \/ StreamRaises(w)
    \/ StreamEnds(w)
    \/ SleepEnds(w)
    \/ TaggingReturns(w)
    \/ CoverDownloadRaises(w)
    \/ TaggingRaises(w)
    \/ LyricsReturns(w)
    \/ LyricsRaises(w)

\* A first run: no document has been written yet.
InitFirstRun ==
    /\ Init
    /\ completed_json = EmptyDict
    /\ failed_json = EmptyDict
    /\ ~CONFIG_SYNC

\* One run in which every request that was issued returns or raises and the
\* event loop runs every task that is ready.
FairSpec ==
    /\ InitFirstRun
    /\ [][Next]_vars
    /\ WF_vars(MainStep)
    /\ \A w \in Workers : WF_vars(WorkerStep(w))

\* Successive runs of the program on the same playlist.
NextRuns ==
    \/ Next
    \/ NextRun

SpecRuns == Init /\ [][NextRuns]_vars

(***************************************************************************)
(* Cancellation.  The main task is cancelled where it is suspended: in a   *)
(* request of the resolution loop, or in download_queue.join().  main()    *)
(* catches the CancelledError and calls shutdown(), which cancels every    *)
(* worker and waits for them; the CancelledError is raised in each worker  *)
(* at the await it is suspended in.                                        *)
(***************************************************************************)
\* A worker's position once its cancellation is requested.
CancelRequested ==
    [idle |-> "cancel in get", download |-> "cancel in download",
     stream |-> "cancel in stream", sleep |-> "cancel in sleep",
     tag |-> "cancel in tag", lyrics |-> "cancel in lyrics"]
CancelPoints == {CancelRequested[p] : p \in DOMAIN CancelRequested}

\* The main task is suspended.
MainSuspended ==
    \/ pc \in {"search", "url", "album"}
    \/ pc = "next" /\ idx > Len(playlist) /\ unfinished > 0

CancelRun ==
    /\ MainSuspended
    /\ pc' = "cancelled"
    /\ wpc' = [w \in Workers |-> CancelRequested[wpc[w]]]
    /\ UNCHANGED <<cfgvars, lyricsvars, callvars, cachevars, files, dirs, idx, query, attempt, error, wjob,
                   wattempt, werror, queuevars, histvars>>

\* The worker's except branch for CancelledError, for a job that is not
\* completed: the file at track_save_path is removed if it exists.
RemovePartialDownload(fs, path) == fs \ {path}

\* The CancelledError is raised in worker w: track_save_path is set when
\* the worker holds a job, and completed_successfully is False at every
\* await of the loop; the error is re-raised and the task ends.
WorkerCancelled(w) ==
    /\ pc = "cancelled"
    /\ wpc[w] \in CancelPoints
    /\ files' = IF wjob[w] # 0
                THEN RemovePartialDownload(files, TrackSavePath(playlist[wjob[w]]))
                ELSE files
    /\ wpc' = [wpc EXCEPT ![w] = "terminated"]
    /\ UNCHANGED <<cfgvars, lyricsvars, callvars, cachevars, dirs, loopvars, wjob, wattempt, werror, queuevars,
                   histvars>>

\* shutdown()'s gather returns: every worker has ended, and main() closes
\* the sessions.
ShutdownEnds ==
    /\ pc = "cancelled"
    /\ \A w \in Workers : wpc[w] = "terminated"
    /\ pc' = "stopped"
    /\ UNCHANGED <<cfgvars, lyricsvars, callvars, cachevars, files, dirs, idx, query, attempt, error, workervars,
                   queuevars, histvars>>

\* One run of the program that can be cancelled.
NextCancel ==
    \/ Next
    \/ CancelRun
    \/ \E w \in Workers : WorkerCancelled(w)
    \/ ShutdownEnds

SpecCancel == Init /\ [][NextCancel]_vars

(***************************************************************************)
(* The sync pass on its own: the documents hold any full_titles of earlier *)
(* playlists, the program is started, and _sync_tracks is then run a       *)
(* second time on what the first pass left.                                *)
(***************************************************************************)
CachedTitles == 1..NumCachedTitles

InitSync ==
    /\ playlist \in Playlists
    /\ CONFIG_RETRY_FAILED = FALSE
    /\ CONFIG_SYNC \in BOOLEAN
    /\ \E C \in SUBSET CachedTitles :
        /\ completed_json = [t \in C |-> CompletedDownload(TrackSavePath(t), TRUE, Some(TRUE))]
        /\ failed_json \in UNION {[F -> LoadedReasons] : F \in SUBSET CachedTitles}
        /\ files = {TrackSavePath(t) : t \in C} \cup {LyricsPath(t) : t \in C}
        /\ dirs = UNION {makedirs({CONFIG_DOWNLOAD_PATH}, dirname(TrackSavePath(t))) : t \in C}
                    \cup {CONFIG_DOWNLOAD_PATH}
    /\ completed_downloads = EmptyDict
    /\ failed_downloads = EmptyDict
    /\ download_queue = <<>>
    /\ unfinished = 0
    /\ pc = "start"
    /\ idx = 1
    /\ query = 1
    /\ attempt = 0
    /\ error = NoResultsFound
    /\ wpc = [w \in Workers |-> "off"]
    /\ wjob = [w \in Workers |-> 0]
    /\ wattempt = [w \in Workers |-> 0]
    /\ werror = [w \in Workers |-> "none"]
    /\ run_no = 1
    /\ searched = {}
    /\ enqueued = {}
    /\ tagged = {}
    /\ lyrics_fetched = {}
    /\ start_failed = {}
    /\ resolved_titles = {}
    /\ no_match_now = {}
    /\ no_match_before = {}
    /\ start_completed = {}
    /\ completed_rows = {}
    /\ CONFIG_DOWNLOAD_LYRICS = TRUE
    /\ CONFIG_DOWNLOAD_UNSYNCED_LYRICS = FALSE
    /\ lrclib = [syncedLyrics |-> "text", plainLyrics |-> "text"]
    /\ lyrics_tasks = [r \in 1..Len(playlist) |-> "none"]
    /\ task_attempt = [r \in 1..Len(playlist) |-> 0]
    /\ lyrics_attempt = [w \in Workers |-> 0]
    /\ args = NoCall
    /\ result = NoCall

\* _sync_tracks is called again, directly after the pass of StartRun.
SyncAgain ==
    /\ pc = "next"
    /\ LET after == _sync_tracks(CONFIG_SYNC, completed_downloads, failed_downloads,
                                 completed_json, CurrentTitles(playlist), files, dirs)
       IN /\ completed_downloads' = after.completed
          /\ failed_downloads' = after.failed
          /\ completed_json' = after.document
          /\ files' = after.files
          /\ dirs' = after.dirs
    /\ pc' = "synced"
    /\ UNCHANGED <<cfgvars, lyricsvars, callvars, failed_json, idx, query, attempt, error, workervars, queuevars,
                   histvars>>

NextSync ==
    \/ StartRun
    \/ SyncAgain

SpecSync == InitSync /\ [][NextSync]_vars

(***************************************************************************)
(* Properties.                                                             *)
(***************************************************************************)
Rows == 1..Len(playlist)
\* The step is the final failure of worker w's download.
DownloadGivenUp(w) ==
    /\ wpc[w] = "sleep"
    /\ wattempt[w] = RETRY_COUNT_DOWNLOAD
    /\ wpc'[w] = "idle"
\* The step ends the resolution of row idx without a job.
ResolutionGivenUp ==
    /\ pc \in {"search", "url", "album"}
    /\ pc' = "next"
    /\ enqueued' = enqueued

\* C1: at every point of a run no full_title is a key of both
\* completed_downloads and failed_downloads, for every playlist (rows with
\* the same full_title included) and every interleaving of the resolution
\* loop with the workers.
C1_CompletedFailedDisjoint ==
    DOMAIN completed_downloads \cap DOMAIN failed_downloads = {}

\* C2: _process_track issues no search and enqueues nothing for a track in
\* Completed; otherwise resolves a track in Failed exactly when retry-failed
\* is on or its reason is the rate-limit marker, and skips it without a
\* search if not; and always resolves a track in neither map.
C2_ProcessTrackPolicy ==
    [][(pc = "next" /\ idx <= Len(playlist) /\ <<pc, idx>>' # <<pc, idx>>) =>
        LET t == playlist[idx]
            resolved == /\ pc' = "search"
                        /\ idx' = idx
                        /\ searched' = searched \cup {idx}
            skipped == /\ pc' = "next"
                       /\ idx' = idx + 1
                       /\ searched' = searched
                       /\ download_queue' = download_queue
                       /\ enqueued' = enqueued
        IN IF t \in DOMAIN completed_downloads
           THEN skipped
           ELSE IF t \in DOMAIN failed_downloads
                THEN IF CONFIG_RETRY_FAILED \/ failed_downloads[t] = ERROR_RATE_LIMITED
                     THEN resolved
                     ELSE skipped
                ELSE resolved]_vars

\* A failed track with the rate-limit marker is being searched again with
\* retry-failed off.
C2_Witness ==
    /\ pc = "search"
    /\ ~CONFIG_RETRY_FAILED
    /\ idx \in searched
    /\ playlist[idx] \in DOMAIN failed_downloads
    /\ failed_downloads[playlist[idx]] = ERROR_RATE_LIMITED

\* C3 (as claimed): when the asset URL of an accepted candidate cannot be
\* obtained and queries remain, resolution goes on with the next query.
C3_UrlFailureTriesNextQuery ==
    [][(pc = "url" /\ pc' \notin {"url", "album"} /\ query < NumQueries) =>
        (pc' = "search" /\ query' = query + 1 /\ idx' = idx)]_vars

\* C3 (amended): when the asset URL of an accepted candidate cannot be
\* obtained, the resolution of the track ends at once, whatever queries
\* remain: no further search is issued, nothing is enqueued, and the
\* missing-URL reason is cached unless the track has a Failed entry.
C3_UrlFailureEndsResolution ==
    [][(pc = "url" /\ pc' \notin {"url", "album"}) =>
        LET t == playlist[idx] IN
        /\ pc' = "next"
        /\ idx' = idx + 1
        /\ query' = query
        /\ searched' = searched
        /\ enqueued' = enqueued
        /\ download_queue' = download_queue
        /\ failed_downloads' = IF t \in DOMAIN failed_downloads
                               THEN failed_downloads
                               ELSE DictSet(failed_downloads, t,
                                        Reason("Failed to get download URL from streaming instance", "none"))]_vars

\* The resolution of row 1 ended on a missing URL at its first query, with
\* queries left untried.
C3_Witness ==
    /\ pc = "next"
    /\ idx = 2
    /\ query < NumQueries
    /\ playlist[1] \in DOMAIN failed_downloads
    /\ failed_downloads[playlist[1]].kind = "Failed to get download URL from streaming instance"

\* C4: when all RETRY_COUNT_DOWNLOAD attempts of a job failed, the worker
\* writes and saves a Failed entry for the job's full_title with the
\* download-failure reason carrying the last error, runs neither the Tagger
\* nor the Lyrics Fetcher for the job, writes no Completed entry, and marks
\* the job done.
C4_DownloadFailureRecorded ==
    [][\A w \in Workers : DownloadGivenUp(w) =>
        LET t == playlist[wjob[w]] IN
        /\ failed_downloads' = DictSet(failed_downloads, t,
                                       Reason("Failed to download", werror[w]))
        /\ werror[w] \in DownloadErrors
        /\ failed_json' = failed_downloads'
        /\ wjob[w] \notin tagged'
        /\ wjob[w] \notin lyrics_fetched'
        /\ completed_downloads' = completed_downloads
        /\ completed_json' = completed_json
        /\ unfinished' = unfinished - 1
        /\ wjob'[w] = 0]_vars

\* A job was given up after its last attempt failed while streaming, and
\* the queue has drained.
C4_Witness ==
    /\ pc = "next"
    /\ unfinished = 0
    /\ enqueued # {}
    /\ \E i \in enqueued :
        /\ playlist[i] \in DOMAIN failed_downloads
        /\ failed_downloads[playlist[i]] = Reason("Failed to download", "ReadError")
        /\ failed_json = failed_downloads
        /\ i \notin tagged

\* C5: after a job failed its download on all attempts, no file exists at
\* the job's target path.
C5_NoFileAfterFailedDownload ==
    [][\A w \in Workers : DownloadGivenUp(w) =>
        TrackSavePath(playlist[wjob[w]]) \notin files']_vars

\* C6: when tagging or lyrics fetching raises after a successful download,
\* the worker saves a Failed entry with the post-download reason (not the
\* download-failure reason), writes no Completed entry, leaves the audio
\* file, and marks the job done; a Completed entry is written only by a
\* worker whose download, tagging and lyrics returned, in that order.
C6_PostDownloadFailure ==
    [][/\ \A w \in Workers :
            LET t == playlist[wjob[w]]
                failed_post ==
                    /\ t \in DOMAIN failed_downloads'
                    /\ failed_downloads'[t].kind = "Post-download error"
                    /\ failed_downloads'[t].err \in PostErrors
                    /\ failed_json' = failed_downloads'
                    /\ completed_downloads' = completed_downloads
                    /\ completed_json' = completed_json
                    /\ TrackSavePath(t) \in files'
                    /\ unfinished' = unfinished - 1
                completed_ok ==
                    /\ \E found_lyrics \in BOOLEAN, unsynced_exists \in OptionalBool :
                          completed_downloads' =
                              DictSet(completed_downloads, t,
                                      CompletedDownload(TrackSavePath(t), found_lyrics,
                                                        unsynced_exists))
                    /\ completed_json' = completed_downloads'
                    /\ failed_downloads' = failed_downloads
                    /\ failed_json' = failed_json
                    /\ unfinished' = unfinished - 1
            IN /\ (wpc[w] = "tag" /\ wpc'[w] = "idle") => failed_post
               /\ (wpc[w] = "lyrics" /\ wpc'[w] = "idle") => (failed_post \/ completed_ok)
               /\ wpc'[w] = "tag" => wpc[w] \in {"stream", "tag"}
               /\ wpc'[w] = "lyrics" => wpc[w] \in {"tag", "lyrics"}
       /\ (completed_downloads' # completed_downloads /\ pc \notin {"start", "done"}) =>
            \E w \in Workers :
                /\ wpc[w] = "lyrics"
                /\ wpc'[w] = "idle"
                /\ wjob[w] \in tagged \cap lyrics_fetched
                /\ DOMAIN completed_downloads' = DOMAIN completed_downloads \cup {playlist[wjob[w]]}
      ]_vars

\* A job whose lyrics step raised: Failed entry with the post-download
\* reason, no Completed entry, the audio file on disk, the job done.
C6_Witness ==
    /\ unfinished = 0
    /\ \E i \in lyrics_fetched :
        /\ playlist[i] \in DOMAIN failed_downloads
        /\ failed_downloads[playlist[i]] = Reason("Post-download error", "LyricsError")
        /\ playlist[i] \notin DOMAIN completed_downloads
        /\ TrackSavePath(playlist[i]) \in files

\* C7: when a run has ended normally, every track of the playlist has its
\* full_title in Completed or in Failed with a non-empty reason.
C7_EveryTrackRecorded ==
    pc = "done" =>
        \A i \in Rows :
            \/ playlist[i] \in DOMAIN completed_downloads
            \/ /\ playlist[i] \in DOMAIN failed_downloads
               /\ failed_downloads[playlist[i]].kind \notin {"", "None"}

\* A run has ended in which a resolution failed, a download failed and a
\* download completed.
C7_Witness ==
    /\ pc = "done"
    /\ Len(playlist) = 2
    /\ playlist[1] \in DOMAIN failed_downloads
    /\ failed_downloads[playlist[1]].kind = "No results found."
    /\ 2 \in enqueued
    /\ playlist[2] \in DOMAIN failed_downloads
    /\ failed_downloads[playlist[2]].kind = "Failed to download"

\* C8 (as claimed): a track that was in Failed at the start of the run and
\* resolved successfully during it is, when the run has ended, absent from
\* Failed and present in Completed.
C8_ResolvedMeansCompleted ==
    pc = "done" =>
        \A t \in start_failed \cap resolved_titles :
            t \notin DOMAIN failed_downloads /\ t \in DOMAIN completed_downloads

\* C8 (amended): when a track resolves successfully its Failed entry, if
\* any, is removed and failed.json rewritten at that moment; and when the
\* run has ended, a track that was in Failed at the start and resolved
\* successfully is present in Completed, or else present in Failed with the
\* download-failure or post-download reason a worker recorded for its job.
C8_ResolvedThenDownloadDecides ==
    /\ [](pc = "done" =>
            \A t \in start_failed \cap resolved_titles :
                \/ t \in DOMAIN completed_downloads
                \/ /\ t \in DOMAIN failed_downloads
                   /\ failed_downloads[t].kind \in {"Failed to download", "Post-download error"})
    /\ [][(pc = "album" /\ enqueued' # enqueued) =>
            /\ playlist[idx] \notin DOMAIN failed_downloads'
            /\ (playlist[idx] \in DOMAIN failed_downloads => failed_json' = failed_downloads')
            /\ playlist[idx] \in resolved_titles']_vars

\* A run has ended in which a track that was in Failed at the start was
\* resolved, downloaded, tagged and recorded as Completed.
C8_Witness ==
    /\ pc = "done"
    /\ \E t \in start_failed \cap resolved_titles :
        t \in DOMAIN completed_downloads /\ t \notin DOMAIN failed_downloads

\* C9: when the resolution of a track fails and Failed holds an entry for
\* it, the entry and failed.json are left unchanged (the first reason is
\* kept, also across runs); when there is none, the new reason is stored
\* under its full_title and failed.json is saved.
C9_FirstFailureReasonKept ==
    [][ResolutionGivenUp =>
        LET t == playlist[idx]
            reasons == IF pc = "url"
                       THEN {Reason("Failed to get download URL from streaming instance", "none")}
                       ELSE IF pc = "album"
                       THEN {ERROR_RATE_LIMITED}
                       ELSE {error, NoSuitableMatch}
        IN IF t \in DOMAIN failed_downloads
           THEN failed_downloads' = failed_downloads /\ failed_json' = failed_json
           ELSE /\ \E r \in reasons : failed_downloads' = DictSet(failed_downloads, t, r)
                /\ failed_json' = failed_downloads']_vars

\* In a second run the resolution of a track ended in no-match while its
\* entry from the first run, a missing URL, is still the one recorded.
C9_Witness ==
    /\ run_no = 2
    /\ pc = "next"
    /\ \E t \in no_match_now \cap start_failed :
        /\ t \in DOMAIN failed_downloads
        /\ failed_downloads[t] = NoDownloadUrl
        /\ failed_json = failed_downloads

\* C10: with retry-failed off, no search request is issued for a track
\* whose resolution ended in a no-match failure in an earlier run over the
\* same playlist, whatever failure entry it had before that run.
C10_NoMatchSkippedLater ==
    ~CONFIG_RETRY_FAILED =>
        \A i \in searched : playlist[i] \notin no_match_before

\* C11: when a candidate was accepted and its asset URL obtained but the
\* album-metadata fetch fails (every attempt raised or was rate limited, or
\* the answer held no data), the resolution of the track ends at once: no
\* further query is searched, nothing is enqueued, and a track without a
\* Failed entry gets exactly the rate-limit marker, which is not the
\* no-match reason.
C11_AlbumFailureEndsResolution ==
    [][(pc = "album" /\ pc' # "album" /\ enqueued' = enqueued) =>
        LET t == playlist[idx]
            marker == Reason("Failed to fetch album metadata after matching, try again next run.", "none")
        IN /\ pc' = "next"
           /\ idx' = idx + 1
           /\ query' = query
           /\ searched' = searched
           /\ download_queue' = download_queue
           /\ unfinished' = unfinished
           /\ marker # NoSuitableMatch
           /\ failed_downloads' = IF t \in DOMAIN failed_downloads
                                  THEN failed_downloads
                                  ELSE DictSet(failed_downloads, t, marker)
           /\ failed_json' = IF t \in DOMAIN failed_downloads
                             THEN failed_json
                             ELSE failed_downloads']_vars

\* The resolution of row 1, a track without a Failed entry, ended at its
\* first query on a failed album fetch: the marker is stored and nothing
\* was enqueued, with queries left untried.
C11_Witness ==
    /\ pc = "next"
    /\ idx = 2
    /\ query < NumQueries
    /\ 1 \in searched
    /\ 1 \notin enqueued
    /\ playlist[1] \notin start_failed
    /\ playlist[1] \in DOMAIN failed_downloads
    /\ failed_downloads[playlist[1]] = ERROR_RATE_LIMITED
    /\ failed_json = failed_downloads

\* C12: at every suspension point of a run, and when the run has ended,
\* each persisted document equals its in-memory map: every mutation of
\* completed_downloads or failed_downloads (by _sync_tracks, the resolution
\* loop or a worker) is followed by a full rewrite of its document before
\* control is given up.
C12_DocumentsEqualMaps ==
    pc # "start" =>
        /\ completed_json = completed_downloads
        /\ failed_json = failed_downloads

\* C13: with sync enabled, after the sync pass the keys of Completed are
\* the keys it was loaded with that are a full_title of the playlist, and
\* the keys of Failed likewise, for every pair of loaded maps (an empty
\* Completed with a non-empty Failed included).
C13_SyncKeepsIntersection ==
    [][(pc = "start" /\ pc' # "start" /\ CONFIG_SYNC) =>
        LET current == {playlist[i] : i \in Rows} IN
        /\ DOMAIN completed_downloads' = DOMAIN completed_json \cap current
        /\ DOMAIN failed_downloads' = DOMAIN failed_json \cap current]_vars

\* C14: when sync deletes the file of a removed Completed entry, the
\* directories between the file and the download root that are left empty
\* are removed, and the download root itself stays, also when it is left
\* empty.
C14_SyncKeepsDownloadRoot ==
    [][(pc = "start" /\ pc' # "start") =>
        /\ \A path \in files \ files' :
             \A k \in (Len(CONFIG_DOWNLOAD_PATH) + 1)..(Len(path) - 1) :
                listdir(files', dirs', SubSeq(path, 1, k)) = {} => SubSeq(path, 1, k) \notin dirs'
        /\ (CONFIG_DOWNLOAD_PATH \in dirs => CONFIG_DOWNLOAD_PATH \in dirs')]_vars

\* C15: sync is idempotent: a second sync pass with the same playlist,
\* directly after the first, changes neither completed_downloads nor
\* failed_downloads, nor a persisted document, nor a file or directory.
C15_SyncIdempotent ==
    [][(pc = "next" /\ pc' = "synced") =>
        /\ completed_downloads' = completed_downloads
        /\ failed_downloads' = failed_downloads
        /\ completed_json' = completed_json
        /\ failed_json' = failed_json
        /\ files' = files
        /\ dirs' = dirs]_vars

\* The second pass has run, with sync enabled, on maps the first pass had
\* pruned: a stale Failed entry is gone from the map, stale files are gone
\* from the disk, and Completed entries of the playlist are left.
C15_Witness ==
    /\ pc = "synced"
    /\ CONFIG_SYNC
    /\ completed_downloads # EmptyDict
    /\ DOMAIN failed_json \ DOMAIN failed_downloads # {}
    /\ \E t \in CachedTitles : get_download_path(ArtistOf(t), AlbumOf(t)) \notin dirs
    /\ \E t \in DOMAIN completed_downloads : TrackSavePath(t) \in files

\* C16: when the CancelledError is raised in a worker that holds a job (in
\* the download, the back-off sleep, tagging or lyrics), the worker task
\* ends, and afterwards no file exists at the job's target path if the job
\* is not recorded as Completed, while the file is kept if it is.
C16_CancelledWorkerFiles ==
    [][\A w \in Workers :
        (wpc[w] # "terminated" /\ wpc'[w] = "terminated" /\ wjob[w] # 0) =>
            LET t == playlist[wjob[w]]
                path == TrackSavePath(t)
            IN /\ wpc[w] \in {"cancel in download", "cancel in stream", "cancel in sleep",
                               "cancel in tag", "cancel in lyrics"}
               /\ IF t \in DOMAIN completed_downloads
                  THEN path \in files => path \in files'
                  ELSE path \notin files']_vars

\* C17: when a run is cancelled, completed.json holds, beyond the entries
\* left by the sync pass, exactly the jobs that reached the completion
\* write before the cancellation, and no job a worker was still processing
\* at the cancellation has its full_title in completed.json or failed.json.
C17_CancelledRunDocuments ==
    pc \in {"cancelled", "stopped"} =>
        /\ DOMAIN completed_json = start_completed \cup {playlist[r] : r \in completed_rows}
        /\ \A w \in Workers :
             wjob[w] # 0 =>
                /\ playlist[wjob[w]] \notin DOMAIN completed_json
                /\ playlist[wjob[w]] \notin DOMAIN failed_json

\* The job of row r was put on the queue, taken, and marked done.
JobMarkedDone(r) ==
    /\ r \in enqueued
    /\ \A k \in 1..Len(download_queue) : download_queue[k] # r
    /\ \A w \in Workers : wjob[w] # r

Queued == {download_queue[k] : k \in 1..Len(download_queue)}
Held == {wjob[w] : w \in {v \in Workers : wjob[v] # 0}}

\* C19: at most CONFIG_CONCURRENT_DOWNLOADS jobs are being processed at a
\* time; a job put on the queue is taken by exactly one worker, no two
\* workers hold the same job, and no job is lost: a job that was enqueued is
\* on the queue once, or held by one worker, or marked done, and it never
\* comes back to the queue.
C19_JobsTakenOnce ==
    /\ [](/\ Cardinality(Held) <= CONFIG_CONCURRENT_DOWNLOADS
          /\ \A v, w \in Workers : (v # w /\ wjob[v] # 0) => wjob[v] # wjob[w]
          /\ \A j, k \in 1..Len(download_queue) : j # k => download_queue[j] # download_queue[k]
          /\ Queued \cap Held = {}
          /\ Queued \cup Held \subseteq enqueued
          /\ unfinished = Cardinality(Queued) + Cardinality(Held)
          /\ (pc = "done" => Queued \cup Held = {}))
    /\ [][\A r \in Rows :
            /\ (r \in Queued /\ r \notin Queued') =>
                    /\ download_queue[1] = r
                    /\ Cardinality({w \in Workers : wjob[w] = 0 /\ wjob'[w] = r}) = 1
                    /\ \A w \in Workers : wjob[w] # 0 => wjob'[w] \in {wjob[w], 0}
            /\ (r \in Held' /\ r \notin Held) => r \in Queued
            /\ (r \in enqueued /\ r \notin Queued) => r \notin Queued']_vars

\* Every worker holds a job of its own, one of them downloading and one
\* tagging.
C19_Witness ==
    /\ Cardinality(Held) = CONFIG_CONCURRENT_DOWNLOADS
    /\ \A w \in Workers : wjob[w] # 0
    /\ \E w \in Workers : wpc[w] = "stream"
    /\ \E w \in Workers : wpc[w] = "tag"

\* C20: resolution is sequential.  At every instant at most one row is in
\* its resolution, the row idx; no later row has been searched or enqueued;
\* and the loop moves on, to the next row only, in the step in which the
\* row's resolution ends in an enqueue, a skip or a cached failure.  Jobs of
\* earlier rows can be in a worker's hands meanwhile.
C20_ResolutionSequential ==
    /\ [](/\ searched \cup enqueued \subseteq 1..idx
          /\ Cardinality({r \in searched : r >= idx}) <= 1
          /\ (pc \in {"search", "url", "album"} =>
                    idx \in Rows /\ idx \in searched /\ idx \notin enqueued)
          /\ (pc \in {"next", "done"} => idx \notin searched)
          /\ Held \cup Queued \subseteq 1..(idx - 1))
    /\ [][idx' # idx =>
            /\ idx' = idx + 1
            /\ pc' = "next"
            /\ \/ /\ pc = "album"
                  /\ enqueued' = enqueued \cup {idx}
                  /\ download_queue' = Append(download_queue, idx)
               \/ /\ pc = "next"
                  /\ searched' = searched
                  /\ enqueued' = enqueued
               \/ /\ pc \in {"search", "url", "album"}
                  /\ enqueued' = enqueued
                  /\ playlist[idx] \in DOMAIN failed_downloads']_vars

\* Row 2 is in its resolution, waiting for the asset URL, while a worker
\* streams the file of row 1.
C20_Witness ==
    /\ pc = "url"
    /\ idx = 2
    /\ 1 \in enqueued
    /\ \E w \in Workers : wjob[w] = 1 /\ wpc[w] = "stream"

(***************************************************************************)
(* Lyrics.  A run with the lyrics settings, the answer of the lyrics       *)
(* service and the lyrics fields of the Completed entries of the user's    *)
(* and the service's choice; no track has failed before.                   *)
(***************************************************************************)
\* The lyrics fields an earlier run can have cached.
CachedLyrics ==
    {<<TRUE, Some(TRUE)>>, <<FALSE, None>>, <<FALSE, Some(TRUE)>>, <<FALSE, Some(FALSE)>>}
\* The state of the tasks when nothing is loaded yet.
InitTasks ==
    /\ completed_downloads = EmptyDict
    /\ failed_downloads = EmptyDict
    /\ download_queue = <<>>
    /\ unfinished = 0
    /\ pc = "start"
    /\ idx = 1
    /\ query = 1
    /\ attempt = 0
    /\ error = NoResultsFound
    /\ wpc = [w \in Workers |-> "off"]
    /\ wjob = [w \in Workers |-> 0]
    /\ wattempt = [w \in Workers |-> 0]
    /\ werror = [w \in Workers |-> "none"]
    /\ run_no = 1
    /\ searched = {}
    /\ enqueued = {}
    /\ tagged = {}
    /\ lyrics_fetched = {}
    /\ start_failed = {}
    /\ resolved_titles = {}
    /\ no_match_now = {}
    /\ no_match_before = {}
    /\ start_completed = {}
    /\ completed_rows = {}
    /\ lyrics_tasks = [r \in 1..Len(playlist) |-> "none"]
    /\ task_attempt = [r \in 1..Len(playlist) |-> 0]
    /\ lyrics_attempt = [w \in Workers |-> 0]
\* The answers of the service in which each kind of lyrics is there or not.
LyricsAnswers == {data \in LyricsData : data.syncedLyrics # "" /\ data.plainLyrics # ""}
InitLyrics ==
    /\ playlist \in Playlists
    /\ CONFIG_RETRY_FAILED = FALSE
    /\ CONFIG_SYNC = FALSE
    /\ CONFIG_DOWNLOAD_LYRICS \in BOOLEAN
    /\ CONFIG_DOWNLOAD_UNSYNCED_LYRICS \in BOOLEAN
    /\ lrclib \in LyricsAnswers
    /\ \E C \in SUBSET Titles : \E cached \in [C -> CachedLyrics] :
        /\ completed_json =
             [t \in C |-> CompletedDownload(TrackSavePath(t), cached[t][1], cached[t][2])]
        /\ files = {TrackSavePath(t) : t \in C} \cup {LyricsPath(t) : t \in {c \in C : cached[c][1]}}
        /\ dirs = UNION {makedirs({CONFIG_DOWNLOAD_PATH}, dirname(TrackSavePath(t))) : t \in C}
                    \cup {CONFIG_DOWNLOAD_PATH}
    /\ failed_json = EmptyDict
    /\ InitTasks
    /\ args = NoCall
    /\ result = NoCall

NextLyrics ==
    \/ Next
    \/ \E w \in Workers : LyricsRequestRaises(w)
    \/ GatherStarts
    \/ \E r \in DOMAIN lyrics_tasks : BackfillReturns(r)
    \/ \E r \in DOMAIN lyrics_tasks : BackfillRequestRaises(r)
    \/ \E r \in DOMAIN lyrics_tasks : BackfillRaises(r)

SpecLyrics == InitLyrics /\ [][NextLyrics]_vars

(***************************************************************************)
(* A run in which more Completed tracks miss their lyrics than the         *)
(* semaphore admits, and one more track is downloaded; every request       *)
(* returns what was asked for.                                             *)
(***************************************************************************)
BackfillRows == 1..(LYRICS_DOWNLOAD_COUNT + 1)
InitPool ==
    /\ playlist = [i \in 1..(LYRICS_DOWNLOAD_COUNT + 2) |-> i]
    /\ CONFIG_RETRY_FAILED = FALSE
    /\ CONFIG_SYNC = FALSE
    /\ CONFIG_DOWNLOAD_LYRICS = TRUE
    /\ CONFIG_DOWNLOAD_UNSYNCED_LYRICS = FALSE
    /\ lrclib \in LyricsAnswers
    /\ completed_json = [t \in BackfillRows |-> CompletedDownload(TrackSavePath(t), FALSE, None)]
    /\ files = {TrackSavePath(t) : t \in BackfillRows}
    /\ dirs = UNION {makedirs({CONFIG_DOWNLOAD_PATH}, dirname(TrackSavePath(t))) :
                        t \in BackfillRows}
    /\ failed_json = EmptyDict
    /\ InitTasks
    /\ args = NoCall
    /\ result = NoCall

NextPool ==
    \/ StartRun
    \/ ProcessTrack
    \/ SearchMatches
    \/ UrlFetched
    \/ AlbumFetched
    \/ \E w \in Workers : WorkerGetsJob(w)
    \/ \E w \in Workers : DownloadOpensFile(w)
    \/ \E w \in Workers : StreamEnds(w)
    \/ \E w \in Workers : TaggingReturns(w)
    \/ \E w \in Workers : LyricsReturns(w)
    \/ GatherStarts
    \/ \E r \in DOMAIN lyrics_tasks : BackfillAcquires(r)
    \/ \E r \in DOMAIN lyrics_tasks : BackfillReturns(r)
    \/ FinishTasks

SpecPool == InitPool /\ [][NextPool]_vars

\* The lyrics requests in flight: those of the workers, made for the track
\* just downloaded, and those of the backfill coroutines.
WorkerLyricsFetches == {w \in Workers : wpc[w] = "lyrics"}
BackfillLyricsFetches == TasksIn(lyrics_tasks, {"request"})
LyricsFetchesInFlight == Cardinality(WorkerLyricsFetches) + Cardinality(BackfillLyricsFetches)

\* C21: the lyrics fetches in flight at one moment, those started by the
\* download workers for fresh downloads plus those of the backfill batch,
\* are never more than LYRICS_DOWNLOAD_COUNT.
C21_LyricsFetchesBounded == LyricsFetchesInFlight <= LYRICS_DOWNLOAD_COUNT

(***************************************************************************)
(* Functions examined on their own: the arguments of one call are drawn,   *)
(* the call is made and what it returned is kept.  The program is not      *)
(* running: one row, nothing cached, no task started.                      *)
(***************************************************************************)
InitCall ==
    /\ playlist = <<1>>
    /\ CONFIG_RETRY_FAILED = FALSE
    /\ CONFIG_SYNC = FALSE
    /\ CONFIG_DOWNLOAD_LYRICS = FALSE
    /\ CONFIG_DOWNLOAD_UNSYNCED_LYRICS = FALSE
    /\ lrclib = [syncedLyrics |-> "null", plainLyrics |-> "null"]
    /\ completed_json = EmptyDict
    /\ failed_json = EmptyDict
    /\ files = {}
    /\ dirs = {CONFIG_DOWNLOAD_PATH}
    /\ InitTasks
    /\ result = NoCall
Returned(op, value) == [op |-> op, value |-> value]
Returns(op, value) ==
    /\ args.op = op
    /\ result = NoCall
    /\ result' = Returned(op, value)
    /\ UNCHANGED <<cfgvars, cachevars, files, dirs, loopvars, workervars, queuevars, histvars,
                   lyricsvars, args>>

\* One call of _fetch_lyrics.
InitFetchLyrics ==
    /\ InitCall
    /\ args \in [op : {"_fetch_lyrics"}, download_lyrics : BOOLEAN,
                  download_unsynced : BOOLEAN, answered : BOOLEAN, data : LyricsData]
FetchLyricsCalled ==
    Returns("_fetch_lyrics",
            _fetch_lyrics(args.download_lyrics, args.download_unsynced, args.answered,
                          args.data))
SpecFetchLyrics == InitFetchLyrics /\ [][FetchLyricsCalled]_vars

\* Lyrics of a kind are present in the answer when their value is a text,
\* absent when it is null or the key is missing.
Present(value) == value = "text"
Absent(value) == value = "null"

ProcessTrackStep ==
    /\ pc = "next"
    /\ idx <= Len(playlist)
    /\ <<pc, idx>>' # <<pc, idx>>
\* The rows a backfill coroutine was made for.
BackfillScheduled == {r \in DOMAIN lyrics_tasks : lyrics_tasks[r] # "none"}

\* C23 as stated: with lyrics enabled, a track in Completed is scheduled for
\* a lyrics backfill whenever its entry has lyrics = false and unsynced_exists
\* unknown or true, and never when unsynced_exists = false or lyrics = true;
\* a backfill issues no catalog search and enqueues no audio download.
C23_BackfillWheneverNotAbsent ==
    /\ [](\A r \in BackfillScheduled : r \notin searched /\ r \notin enqueued)
    /\ [][(/\ ProcessTrackStep
            /\ CONFIG_DOWNLOAD_LYRICS
            /\ playlist[idx] \in DOMAIN completed_downloads)
          => LET entry == completed_downloads[playlist[idx]]
             IN (idx \in BackfillScheduled') <=>
                    (entry.lyrics = FALSE /\ entry.unsynced_exists \in {None, Some(TRUE)})]_vars

\* C23, amended: with lyrics enabled, a track in Completed is scheduled for a
\* lyrics backfill exactly when its entry has lyrics = false and either
\* unsynced_exists unknown, or unsynced_exists = true and unsynced lyrics
\* wanted; a backfill issues no catalog search and enqueues no audio download.
C23_BackfillScheduling ==
    /\ [](\A r \in BackfillScheduled : r \notin searched /\ r \notin enqueued)
    /\ [][(/\ ProcessTrackStep
            /\ CONFIG_DOWNLOAD_LYRICS
            /\ playlist[idx] \in DOMAIN completed_downloads)
          => LET entry == completed_downloads[playlist[idx]]
             IN (idx \in BackfillScheduled') <=>
                    /\ entry.lyrics = FALSE
                    /\ \/ entry.unsynced_exists = None
                       \/ entry.unsynced_exists = Some(TRUE) /\ CONFIG_DOWNLOAD_UNSYNCED_LYRICS]_vars

\* A backfill was scheduled for a row whose entry says that unsynced lyrics
\* exist, and its request is in flight.
C23_Witness ==
    \E r \in DOMAIN lyrics_tasks :
        /\ lyrics_tasks[r] = "request"
        /\ CONFIG_DOWNLOAD_UNSYNCED_LYRICS
        /\ completed_downloads[playlist[r]].lyrics = FALSE
        /\ completed_downloads[playlist[r]].unsynced_exists = Some(TRUE)

(***************************************************************************)
(* Matching.  _match_track looks at a candidate through the edit keywords  *)
(* in the two titles, the classifications compare_results gives for title, *)
(* primary artist, joined artists and album, the number of artists on both *)
(* sides and the single check.                                             *)
(***************************************************************************)
EXACT == "exact"
SUBSTRING == "substring"
SKIP == "skip"
NONE == "none"
MatchType == {EXACT, SUBSTRING, SKIP, NONE}

\* What _match_track reads of the source track and of one candidate.
\* artists_all is what compare_results gives for the joined artists; it is
\* asked for only when both sides have more than one artist.
SpotifyTracks == [is_song_edit : BOOLEAN, many_artists : BOOLEAN]
TidalTracks ==
    [is_song_edit : BOOLEAN, many_artists : BOOLEAN, title : MatchType, artist : MatchType,
     artists_all : MatchType, album : MatchType, is_single : BOOLEAN]

\* Variant of CandidateAccepted without the check of the edit keywords.
CandidateAccepted_EditsAllowed(spotify_track, tidal_track) ==
    LET title_match == tidal_track.title
        artists_all_match ==
            IF spotify_track.many_artists /\ tidal_track.many_artists
            THEN tidal_track.artists_all
            ELSE NONE
        artist_match == tidal_track.artist
    IN IF title_match = NONE THEN FALSE
       ELSE IF artist_match = NONE /\ artists_all_match = NONE THEN FALSE
       ELSE IF title_match = EXACT /\ (artist_match = EXACT \/ artists_all_match = EXACT)
       THEN TRUE
       ELSE IF tidal_track.album = NONE /\ ~tidal_track.is_single THEN FALSE
       ELSE TRUE

\* Variant of CandidateAccepted that asks for an album match of a single too.
CandidateAccepted_SingleIgnored(spotify_track, tidal_track) ==
    LET is_edit == ~spotify_track.is_song_edit /\ tidal_track.is_song_edit
        title_match == tidal_track.title
        artists_all_match ==
            IF spotify_track.many_artists /\ tidal_track.many_artists
            THEN tidal_track.artists_all
            ELSE NONE
        artist_match == tidal_track.artist
    IN IF is_edit THEN FALSE
       ELSE IF title_match = NONE THEN FALSE
       ELSE IF artist_match = NONE /\ artists_all_match = NONE THEN FALSE
       ELSE IF title_match = EXACT /\ (artist_match = EXACT \/ artists_all_match = EXACT)
       THEN TRUE
       ELSE IF tidal_track.album = NONE THEN FALSE
       ELSE TRUE

\* Variant of CandidateAccepted without the title filter.
CandidateAccepted_TitleIgnored(spotify_track, tidal_track) ==
    LET is_edit == ~spotify_track.is_song_edit /\ tidal_track.is_song_edit
        title_match == tidal_track.title
        artists_all_match ==
            IF spotify_track.many_artists /\ tidal_track.many_artists
            THEN tidal_track.artists_all
            ELSE NONE
        artist_match == tidal_track.artist
    IN IF is_edit THEN FALSE
       ELSE IF artist_match = NONE /\ artists_all_match = NONE THEN FALSE
       ELSE IF title_match = EXACT /\ (artist_match = EXACT \/ artists_all_match = EXACT)
       THEN TRUE
       ELSE IF tidal_track.album = NONE /\ ~tidal_track.is_single THEN FALSE
       ELSE TRUE

\* The body of _match_track's loop for one candidate: TRUE when it ends with
\* matched = True and break, FALSE when it ends with continue.
CandidateAccepted(spotify_track, tidal_track) ==
    LET is_edit == ~spotify_track.is_song_edit /\ tidal_track.is_song_edit
        title_match == tidal_track.title
        artists_all_match ==
            IF spotify_track.many_artists /\ tidal_track.many_artists
            THEN tidal_track.artists_all
            ELSE NONE
        artist_match == tidal_track.artist
    IN IF is_edit THEN FALSE
       ELSE IF title_match = NONE THEN FALSE
       ELSE IF artist_match = NONE /\ artists_all_match = NONE THEN FALSE
       ELSE IF title_match = EXACT /\ (artist_match = EXACT \/ artists_all_match = EXACT)
       THEN TRUE
       ELSE IF tidal_track.album = NONE /\ ~tidal_track.is_single THEN FALSE
       ELSE TRUE

\* One candidate is scanned.
InitCandidate ==
    /\ InitCall
    /\ args \in [op : {"candidate"}, spotify_track : SpotifyTracks, tidal_track : TidalTracks]
CandidateScanned ==
    Returns("candidate", CandidateAccepted(args.spotify_track, args.tidal_track))
SpecCandidate == InitCandidate /\ [][CandidateScanned]_vars

\* C24: a scanned candidate is accepted exactly when: not (source title a
\* non-edit and candidate title an edit); the title classification is not
\* None; the primary-artist and all-artists classifications are not both
\* None (all-artists being None unless both sides have several artists); and
\* title Exact with one artist classification Exact, or the album
\* classification not None, or a single.
C24_AcceptanceRule ==
    result # NoCall /\ args.op = "candidate" =>
        LET s == args.spotify_track
            c == args.tidal_track
            all_artists == IF s.many_artists /\ c.many_artists THEN c.artists_all ELSE NONE
        IN result.value <=>
            /\ ~(~s.is_song_edit /\ c.is_song_edit)
            /\ c.title # NONE
            /\ ~(c.artist = NONE /\ all_artists = NONE)
            /\ \/ c.title = EXACT /\ (c.artist = EXACT \/ all_artists = EXACT)
               \/ c.album # NONE
               \/ c.is_single

\* A single was accepted although its album classification is None and no
\* classification is Exact.
C24_Witness ==
    /\ result # NoCall
    /\ args.op = "candidate"
    /\ result.value
    /\ args.tidal_track.album = NONE
    /\ args.tidal_track.is_single
    /\ args.tidal_track.title = SKIP
    /\ args.tidal_track.artist = SUBSTRING

\* C25: a candidate whose title contains an edit keyword is never accepted
\* for a source whose title contains none, whatever the classifications.
C25_EditAsymmetry ==
    result # NoCall /\ args.op = "candidate" =>
        (~args.spotify_track.is_song_edit /\ args.tidal_track.is_song_edit => ~result.value)

\* C25, the other direction: a source whose title contains an edit keyword
\* accepted a candidate whose title contains none.
C25_Witness ==
    /\ result # NoCall
    /\ args.op = "candidate"
    /\ args.spotify_track.is_song_edit
    /\ ~args.tidal_track.is_song_edit
    /\ result.value

(***************************************************************************)
(* _search_track as a function of what the service answers: for each query *)
(* whether one of the attempts of the search request returned, and the     *)
(* candidates it returned, in the service's order; and whether the URL and *)
(* the album requests made for a matched candidate succeed.                *)
(***************************************************************************)
MaxCandidates == 2

\* Variant of _match_track_loop that looks at the first candidate only.
RECURSIVE _match_track_loop_FirstOnly(_, _, _)
_match_track_loop_FirstOnly(spotify_track, found_tracks, k) ==
    IF k > Len(found_tracks) \/ k > 1
    THEN [matched |-> 0, scanned |-> k - 1]
    ELSE IF CandidateAccepted(spotify_track, found_tracks[k])
    THEN [matched |-> k, scanned |-> k]
    ELSE _match_track_loop_FirstOnly(spotify_track, found_tracks, k + 1)

\* _match_track's loop from the k-th candidate on: the position of the
\* candidate it breaks at with matched = True (0: none), and the number of
\* candidates it has looked at.
RECURSIVE _match_track_loop(_, _, _)
_match_track_loop(spotify_track, found_tracks, k) ==
    IF k > Len(found_tracks)
    THEN [matched |-> 0, scanned |-> Len(found_tracks)]
    ELSE IF CandidateAccepted(spotify_track, found_tracks[k])
    THEN [matched |-> k, scanned |-> k]
    ELSE _match_track_loop(spotify_track, found_tracks, k + 1)

\* What _search_track did: the job's query and candidate (<<0, 0>>: no job),
\* the reason cached when there is no job, and for each query issued, in
\* order, the number of candidates scanned.
Searched(job, reason, scanned) == [job |-> job, reason |-> reason, scanned |-> scanned]

\* _search_track's loop from the q-th query on.
RECURSIVE _search_track_loop(_, _, _, _, _, _, _)
_search_track_loop(spotify_track, answers, url, album, q, last_error, scanned) ==
    IF q > Len(answers)
    THEN Searched(<<0, 0>>, last_error, scanned)
    ELSE IF ~answers[q].answered \/ answers[q].items = <<>>
    THEN _search_track_loop(spotify_track, answers, url, album, q + 1, last_error,
                            Append(scanned, 0))
    ELSE LET scan == _match_track_loop(spotify_track, answers[q].items, 1)
         IN IF scan.matched = 0
            THEN _search_track_loop(spotify_track, answers, url, album, q + 1,
                                    NoSuitableMatch, Append(scanned, scan.scanned))
            ELSE IF ~url
            THEN Searched(<<0, 0>>, NoDownloadUrl, Append(scanned, scan.scanned))
            ELSE IF ~album
            THEN Searched(<<0, 0>>, ERROR_RATE_LIMITED, Append(scanned, scan.scanned))
            ELSE Searched(<<q, scan.matched>>, NoReason, Append(scanned, scan.scanned))
_search_track(spotify_track, answers, url, album) ==
    _search_track_loop(spotify_track, answers, url, album, 1, NoResultsFound, <<>>)

\* The candidates the service returns here: the title is the source's, the
\* artist contains it; the title has an edit keyword or not, the album is the
\* source's or another.
FoundCandidates ==
    {c \in TidalTracks : /\ c.title = EXACT
                         /\ c.artist = SUBSTRING
                         /\ c.album \in {EXACT, NONE}
                         /\ ~c.many_artists
                         /\ c.artists_all = NONE
                         /\ ~c.is_single}
FoundTracks == UNION {[1..n -> FoundCandidates] : n \in 0..MaxCandidates}
SearchAnswers ==
    [answered : {TRUE}, items : FoundTracks] \cup [answered : {FALSE}, items : {<<>>}]

InitSearch ==
    /\ InitCall
    /\ args \in [op : {"_search_track"},
                  spotify_track : {s \in SpotifyTracks : ~s.many_artists},
                  answers : [1..NumQueries -> SearchAnswers],
                  url : BOOLEAN, album : BOOLEAN]
SearchTrackCalled ==
    Returns("_search_track",
            _search_track(args.spotify_track, args.answers, args.url, args.album))
SpecSearch == InitSearch /\ [][SearchTrackCalled]_vars

\* The candidates of a query's answer that pass the acceptance rules.
Acceptable(spotify_track, answer) ==
    {k \in 1..Len(answer.items) : CandidateAccepted(spotify_track, answer.items[k])}

\* C26: when resolution succeeds, the job is built from the first candidate,
\* in the service's order, that passes the acceptance rules, of the earliest
\* query whose results contain one; the candidates before it were scanned and
\* rejected one after the other, and no later query was issued.
C26_FirstCandidateOfEarliestQuery ==
    (result # NoCall /\ args.op = "_search_track" /\ result.value.job # <<0, 0>>) =>
        LET q == result.value.job[1]
            k == result.value.job[2]
            s == args.spotify_track
        IN /\ args.answers[q].answered
           /\ k \in Acceptable(s, args.answers[q])
           /\ \A j \in Acceptable(s, args.answers[q]) : k <= j
           /\ \A p \in 1..(q - 1) : Acceptable(s, args.answers[p]) = {}
           /\ Len(result.value.scanned) = q
           /\ result.value.scanned[q] = k
           /\ \A p \in 1..(q - 1) :
                 result.value.scanned[p] = Len(args.answers[p].items)

\* The job was built from the second candidate of the second query: the
\* first query's candidates and the one before it were rejected.
C26_Witness ==
    /\ result # NoCall
    /\ args.op = "_search_track"
    /\ result.value.job = <<2, 2>>
    /\ result.value.scanned = <<2, 2>>

\* C27: a network call is attempted a bounded number of times: one search
\* query, one asset-URL request, one album request and one lyrics request at
\* most RETRY_COUNT_API times, one audio download at most
\* RETRY_COUNT_DOWNLOAD times; and when the attempts of a search query are
\* exhausted, the next query is issued and nothing is recorded for the track
\* (after the last query the resolution ends as it does without results).
C27_BoundedRetries ==
    /\ [](/\ pc \in {"search", "url", "album"} => attempt + 1 <= RETRY_COUNT_API
          /\ \A w \in Workers :
                /\ wpc[w] \in {"download", "stream"} => wattempt[w] + 1 <= RETRY_COUNT_DOWNLOAD
                /\ wattempt[w] <= RETRY_COUNT_DOWNLOAD
                /\ wpc[w] = "lyrics" => lyrics_attempt[w] + 1 <= RETRY_COUNT_API
                /\ lyrics_attempt[w] + 1 <= RETRY_COUNT_API
          /\ \A r \in DOMAIN lyrics_tasks : task_attempt[r] + 1 <= RETRY_COUNT_API)
    /\ [][(SearchRaises /\ attempt + 1 = RETRY_COUNT_API) =>
            IF query < NumQueries
            THEN /\ pc' = "search"
                 /\ query' = query + 1
                 /\ attempt' = 0
                 /\ idx' = idx
                 /\ UNCHANGED cachevars
            ELSE /\ pc' = "next"
                 /\ idx' = idx + 1
                 /\ playlist[idx] \in DOMAIN failed_downloads']_vars

\* The last attempt of a search request is in progress and the last attempt
\* of a download has just failed.
C27_Witness ==
    /\ pc = "search"
    /\ attempt + 1 = RETRY_COUNT_API
    /\ query < NumQueries
    /\ \E w \in Workers : wpc[w] = "sleep" /\ wattempt[w] = RETRY_COUNT_DOWNLOAD

(***************************************************************************)
(* Comparison of texts.  A text is the sequence of its characters;         *)
(* "A-acute" is the capital letter A with an acute accent.                 *)
(***************************************************************************)
TITLE == "title"
ARTIST == "artist"
ARTISTS_ALL == "artists_all"
ALBUM == "album"
TrackFindType == {TITLE, ARTIST, ARTISTS_ALL, ALBUM}

KEYWORDS_SONG_COLLECTIONS ==
    {<<"g", "r", "e", "a", "t", "e", "s", "t", " ", "h", "i", "t", "s">>,
     <<"b", "e", "s", "t", " ", "o", "f">>,
     <<"a", "n", "t", "h", "o", "l", "o", "g", "y">>,
     <<"c", "o", "m", "p", "i", "l", "a", "t", "i", "o", "n">>,
     <<"c", "o", "l", "l", "e", "c", "t", "i", "o", "n">>,
     <<"b", "o", "x", " ", "s", "e", "t">>,
     <<"h", "i", "t", "s">>,
     <<"c", "l", "a", "s", "s", "i", "c", "s">>}

\* str.lower (and str.casefold) and remove_accents, character by character.
LowerChar(c) == IF c = "A-acute" THEN "a-acute" ELSE c
lower(text) == [i \in 1..Len(text) |-> LowerChar(text[i])]
UnaccentedChar(c) == IF c = "a-acute" THEN "a" ELSE IF c = "A-acute" THEN "A" ELSE c
remove_accents(text) == [i \in 1..Len(text) |-> UnaccentedChar(text[i])]
\* str.strip.
RECURSIVE lstrip(_)
lstrip(text) == IF text # <<>> /\ Head(text) = " " THEN lstrip(Tail(text)) ELSE text
RECURSIVE rstrip(_)
rstrip(text) ==
    IF text # <<>> /\ text[Len(text)] = " "
    THEN rstrip(SubSeq(text, 1, Len(text) - 1))
    ELSE text
strip(text) == rstrip(lstrip(text))
normalize(text) == strip(remove_accents(lower(text)))

\* "part in text" of two strings.
IsIn(part, text) ==
    \E i \in 1..(Len(text) - Len(part) + 1) : SubSeq(text, i, i + Len(part) - 1) = part
\* str.split(sep) with a separator of one character: the parts, in order.
RECURSIVE SplitAt(_, _, _)
SplitAt(text, sep, part) ==
    IF text = <<>>
    THEN <<part>>
    ELSE IF Head(text) = sep
    THEN <<part>> \o SplitAt(Tail(text), sep, <<>>)
    ELSE SplitAt(Tail(text), sep, Append(part, Head(text)))
Parts(text, sep) == {SplitAt(text, sep, <<>>)[i] : i \in 1..Len(SplitAt(text, sep, <<>>))}
\* set(text.split(";")), and set(text.split()), which has no empty part.
SplitSemicolon(text) == Parts(text, ";")
SplitWhitespace(text) == Parts(text, " ") \ {<<>>}

\* The filters of music_metadata_filter take the tags of their kind off a
\* text.
FeatureTag == <<" ", "(", "f", "e", "a", "t", ".", " ", "b", ")">>
RemasteredTag == <<" ", "(", "r", "e", "m", "a", "s", "t", "e", "r", "e", "d", ")">>
VersionTag == <<" ", "(", "a", "l", "b", "u", "m", " ", "v", "e", "r", "s", "i", "o", "n", ")">>
ReissueTag == <<" ", "(", "r", "e", "i", "s", "s", "u", "e", ")">>
RECURSIVE RemoveTag(_, _)
RemoveTag(text, tag) ==
    IF Len(text) < Len(tag)
    THEN text
    ELSE IF SubSeq(text, 1, Len(tag)) = tag
    THEN RemoveTag(SubSeq(text, Len(tag) + 1, Len(text)), tag)
    ELSE <<Head(text)>> \o RemoveTag(Tail(text), tag)
remove_feature(text) == RemoveTag(text, FeatureTag)
remove_remastered(text) == RemoveTag(text, RemasteredTag)
remove_version(text) == RemoveTag(text, VersionTag)
remove_reissue(text) == RemoveTag(text, ReissueTag)
\* custom_clean_title on a text without tags, dashes and brackets: runs of
\* spaces are collapsed and the text stripped.
RECURSIVE CollapseSpaces(_)
CollapseSpaces(text) ==
    IF Len(text) < 2
    THEN text
    ELSE IF text[1] = " " /\ text[2] = " "
    THEN CollapseSpaces(Tail(text))
    ELSE <<Head(text)>> \o CollapseSpaces(Tail(text))
custom_clean_title(text) == strip(CollapseSpaces(text))

cleanse_track(text, field) ==
    IF field \in {ARTIST, ARTISTS_ALL} THEN remove_feature(text)
    ELSE IF field = TITLE
    THEN custom_clean_title(remove_version(remove_remastered(remove_feature(text))))
    ELSE IF field = ALBUM THEN remove_reissue(remove_version(remove_remastered(text)))
    ELSE text

is_collection(title) == \E keyword \in KEYWORDS_SONG_COLLECTIONS : IsIn(keyword, lower(title))

\* Variant of PartsMatch that asks for parts of more than 3 characters.
PartsMatch_LongerParts(search_part, found_part) ==
    /\ Len(search_part) > 3
    /\ Len(found_part) > 3
    /\ IsIn(search_part, found_part) \/ IsIn(found_part, search_part)

\* The test compare_results makes of a pair of parts.
PartsMatch(search_part, found_part) ==
    /\ Len(search_part) >= 3
    /\ Len(found_part) >= 3
    /\ IsIn(search_part, found_part) \/ IsIn(found_part, search_part)

\* Variant of compare_results that looks at the parts before the collection
\* keywords.
compare_results_PartsFirst(search, found, field) ==
    LET search_clean == cleanse_track(search, field)
        found_clean == cleanse_track(found, field)
        search_clean_normalized == normalize(search_clean)
        found_clean_normalized == normalize(found_clean)
        search_parts == IF field = ARTISTS_ALL
                        THEN SplitSemicolon(search_clean_normalized)
                        ELSE SplitWhitespace(search_clean_normalized)
        found_parts == IF field = ARTISTS_ALL
                       THEN SplitSemicolon(found_clean_normalized)
                       ELSE SplitWhitespace(found_clean_normalized)
    IN IF search_clean_normalized = found_clean_normalized THEN EXACT
       ELSE IF Len(search_clean_normalized) < 3 \/ Len(found_clean_normalized) < 3
       THEN SKIP
       ELSE IF \E search_part \in search_parts : \E found_part \in found_parts :
                 PartsMatch(search_part, found_part)
       THEN SUBSTRING
       ELSE IF field = ALBUM /\ is_collection(found_clean) THEN SKIP
       ELSE NONE

\* Variant of compare_results that looks at the collection keywords first.
compare_results_CollectionFirst(search, found, field) ==
    LET search_clean == cleanse_track(search, field)
        found_clean == cleanse_track(found, field)
        search_clean_normalized == normalize(search_clean)
        found_clean_normalized == normalize(found_clean)
        search_parts == IF field = ARTISTS_ALL
                        THEN SplitSemicolon(search_clean_normalized)
                        ELSE SplitWhitespace(search_clean_normalized)
        found_parts == IF field = ARTISTS_ALL
                       THEN SplitSemicolon(found_clean_normalized)
                       ELSE SplitWhitespace(found_clean_normalized)
    IN IF field = ALBUM /\ is_collection(found_clean) THEN SKIP
       ELSE IF search_clean_normalized = found_clean_normalized THEN EXACT
       ELSE IF Len(search_clean_normalized) < 3 \/ Len(found_clean_normalized) < 3
       THEN SKIP
       ELSE IF \E search_part \in search_parts : \E found_part \in found_parts :
                 PartsMatch(search_part, found_part)
       THEN SUBSTRING
       ELSE NONE

compare_results(search, found, field) ==
    LET search_clean == cleanse_track(search, field)
        found_clean == cleanse_track(found, field)
        search_clean_normalized == normalize(search_clean)
        found_clean_normalized == normalize(found_clean)
        search_parts == IF field = ARTISTS_ALL
                        THEN SplitSemicolon(search_clean_normalized)
                        ELSE SplitWhitespace(search_clean_normalized)
        found_parts == IF field = ARTISTS_ALL
                       THEN SplitSemicolon(found_clean_normalized)
                       ELSE SplitWhitespace(found_clean_normalized)
    IN IF search_clean_normalized = found_clean_normalized THEN EXACT
       ELSE IF field = ALBUM /\ is_collection(found_clean) THEN SKIP
       ELSE IF Len(search_clean_normalized) < 3 \/ Len(found_clean_normalized) < 3
       THEN SKIP
       ELSE IF \E search_part \in search_parts : \E found_part \in found_parts :
                 PartsMatch(search_part, found_part)
       THEN SUBSTRING
       ELSE NONE

\* The texts compared: one or two names, joined by a space or a semicolon,
\* with or without a tag at the end.
MaxNames == 2
Names ==
    {<<"a", "b">>,
     <<"a", "b", "c">>,
     <<"A-acute", "b", "c", " ">>,
     <<"a", "b", "c", "d">>,
     <<"h", "i", "t", "s">>}
RECURSIVE Joined(_)
Joined(n) ==
    IF n = 1
    THEN Names
    ELSE {text \o sep \o name : text \in Joined(n - 1), sep \in {<<" ">>, <<";">>}, name \in Names}
Texts ==
    {text \o tag : text \in UNION {Joined(n) : n \in 1..MaxNames},
                   tag \in {<<>>, FeatureTag, RemasteredTag, VersionTag, ReissueTag}}

InitCompare ==
    /\ InitCall
    /\ args \in [op : {"compare_results"}, search : Texts, found : Texts,
                  field : TrackFindType]
CompareResultsCalled ==
    Returns("compare_results", compare_results(args.search, args.found, args.field))
SpecCompare == InitCompare /\ [][CompareResultsCalled]_vars

\* The cleansed and the cleansed, normalized form of a text.
Cleansed(text) == cleanse_track(text, args.field)
Normalized(text) == normalize(cleanse_track(text, args.field))
\* The tokens of a normalized text: split on ';' for artists_all, on
\* whitespace otherwise.
Tokens(text) ==
    IF args.field = ARTISTS_ALL THEN SplitSemicolon(text) ELSE SplitWhitespace(text)
CompareReturned == result # NoCall /\ args.op = "compare_results"

\* C28: compare_results returns exactly one classification, decided in this
\* order: Exact when the cleansed, normalized strings are equal; else Skip
\* when the field is album and the cleansed found string contains a
\* collection keyword; else Skip when a normalized string is shorter than 3
\* characters; else Substring when an expected and a found token, each of at
\* least 3 characters, are substrings one of the other; else None.
C28_ClassificationOrder ==
    CompareReturned =>
        LET exact == Normalized(args.search) = Normalized(args.found)
            collection ==
                /\ args.field = ALBUM
                /\ \E keyword \in KEYWORDS_SONG_COLLECTIONS :
                        IsIn(keyword, lower(Cleansed(args.found)))
            short == Len(Normalized(args.search)) < 3 \/ Len(Normalized(args.found)) < 3
            substring ==
                \E x \in Tokens(Normalized(args.search)) :
                    \E y \in Tokens(Normalized(args.found)) :
                        Len(x) >= 3 /\ Len(y) >= 3 /\ (IsIn(x, y) \/ IsIn(y, x))
        IN /\ result.value \in MatchType
           /\ exact => result.value = EXACT
           /\ ~exact /\ collection => result.value = SKIP
           /\ ~exact /\ ~collection /\ short => result.value = SKIP
           /\ ~exact /\ ~collection /\ ~short /\ substring => result.value = SUBSTRING
           /\ ~exact /\ ~collection /\ ~short /\ ~substring => result.value = NONE

\* Skip was returned for an album with a collection keyword although the
\* two albums are long enough and have a token in common.
C28_Witness ==
    /\ CompareReturned
    /\ args.field = ALBUM
    /\ result.value = SKIP
    /\ Len(Normalized(args.search)) >= 3
    /\ Len(Normalized(args.found)) >= 3
    /\ Tokens(Normalized(args.search)) \cap Tokens(Normalized(args.found)) # {}
    /\ is_collection(Cleansed(args.found))

\* C29 as stated: for the field album and a candidate album that is a
\* collection title, compare_results returns Skip for every source album.
C29_CollectionAlwaysSkipped ==
    (CompareReturned /\ args.field = ALBUM /\ is_collection(Cleansed(args.found)))
        => result.value = SKIP

\* C29, amended: for the field album and a candidate album that is a
\* collection title, compare_results returns Exact for a source album whose
\* cleansed, normalized form equals the candidate's, and Skip for every
\* other source album.
C29_CollectionSkippedUnlessEqual ==
    (CompareReturned /\ args.field = ALBUM /\ is_collection(Cleansed(args.found)))
        => result.value = IF Normalized(args.search) = Normalized(args.found)
                          THEN EXACT
                          ELSE SKIP

\* The candidate album is a collection title and the source album is the
\* same but for a remaster tag: Exact.
C29_Witness ==
    /\ CompareReturned
    /\ args.field = ALBUM
    /\ is_collection(Cleansed(args.found))
    /\ args.search # args.found
    /\ result.value = EXACT

\* The expected text is a ';'-joined list of two names and the found text is
\* one of them.
OneOfJoinedNames ==
    /\ args.field = ARTISTS_ALL
    /\ args.found \in Names
    /\ \E other \in Names :
          args.search \in {args.found \o <<";">> \o other, other \o <<";">> \o args.found}

\* C30 as stated: for artists_all, an expected ';'-joined list of names
\* against one of those names gives Substring, for names of every length.
C30_JoinedNamesSubstring ==
    (CompareReturned /\ OneOfJoinedNames) => result.value = SUBSTRING

\* C30, amended: for artists_all, an expected ';'-joined list of names
\* against one of those names gives Substring when the found name has at
\* least 3 characters, and Skip when it is shorter.
C30_JoinedNamesSubstringFromThree ==
    (CompareReturned /\ OneOfJoinedNames) =>
        result.value = IF Len(Normalized(args.found)) >= 3 THEN SUBSTRING ELSE SKIP

\* A list of two different names was compared with the second of them.
C30_Witness ==
    /\ CompareReturned
    /\ OneOfJoinedNames
    /\ Len(Normalized(args.found)) >= 3
    /\ SplitAt(Normalized(args.search), ";", <<>>)[1] # Normalized(args.found)
    /\ SplitAt(Normalized(args.search), ";", <<>>)[2] = Normalized(args.found)
    /\ result.value = SUBSTRING

(***************************************************************************)
(* The temporary cover file.                                               *)
(***************************************************************************)
\* C31: when a worker leaves _add_metadata for a job with a cover
\* identifier, by its return or by an exception of the cover download or of
\* the tag writer, the temporary cover file of the job does not exist.
C31_CoverRemovedAfterTagging ==
    [][\A w \in Workers :
        (wpc[w] = "tag" /\ wpc'[w] \in {"lyrics", "idle"}) =>
            CoverPath(wjob[w]) \notin files']_vars


(***************************************************************************)
(* The start of a run on each playlist file: it is missing, or each of its *)
(* rows gives a track or not; the documents and the disk hold what an      *)
(* earlier run left.                                                       *)
(***************************************************************************)
PlaylistFiles ==
    {PlaylistFile(exists, rows) :
        exists \in BOOLEAN,
        rows \in UNION {[1..n -> Titles \cup {NoTrack}] : n \in 0..MaxTracks}}

InitStart ==
    /\ \E file \in PlaylistFiles :
        /\ ~file.exists => file.rows = <<>>
        /\ FirstOccurrenceOrder(load_spotify_playlist(file))
        /\ playlist = load_spotify_playlist(file)
        /\ args = [op |-> "load_spotify_playlist", file |-> file]
    /\ result = NoCall
    /\ CONFIG_RETRY_FAILED \in BOOLEAN
    /\ CONFIG_SYNC \in BOOLEAN
    /\ CONFIG_DOWNLOAD_LYRICS = TRUE
    /\ CONFIG_DOWNLOAD_UNSYNCED_LYRICS = FALSE
    /\ lrclib = [syncedLyrics |-> "text", plainLyrics |-> "text"]
    /\ \E C \in SUBSET Titles :
        /\ completed_json = [t \in C |-> CompletedDownload(TrackSavePath(t), TRUE, Some(TRUE))]
        /\ failed_json \in UNION {[F -> LoadedReasons] : F \in SUBSET (Titles \ C)}
        /\ files = {TrackSavePath(t) : t \in C} \cup {LyricsPath(t) : t \in C}
        /\ dirs = UNION {makedirs({CONFIG_DOWNLOAD_PATH}, dirname(TrackSavePath(t))) : t \in C}
                    \cup {CONFIG_DOWNLOAD_PATH}
    /\ InitTasks

SpecStart == InitStart /\ [][Next]_vars

\* A run whose playlist gave no track.
NoTrackLoaded == playlist = <<>>

\* C32: when the playlist file is missing or yields no track, the run ends
\* at once: the documents are not loaded (the maps stay empty) and not
\* rewritten, no file and no directory is removed, no worker is started, no
\* request is issued and nothing is put on the queue.
C32_NoTrackNoWork ==
    /\ [](NoTrackLoaded =>
            /\ pc \in {"start", "done"}
            /\ completed_downloads = EmptyDict
            /\ failed_downloads = EmptyDict
            /\ \A w \in Workers : wpc[w] = "off"
            /\ searched = {}
            /\ enqueued = {}
            /\ download_queue = <<>>)
    /\ [][NoTrackLoaded =>
            UNCHANGED <<completed_json, failed_json, files, dirs>>]_vars

\* The run has returned for a playlist file whose rows give no track, with
\* sync enabled and entries in both documents.
C32_Witness ==
    /\ pc = "done"
    /\ NoTrackLoaded
    /\ args.file.exists
    /\ args.file.rows # <<>>
    /\ CONFIG_SYNC
    /\ completed_json # EmptyDict
    /\ failed_json # EmptyDict
    /\ files # {}

(***************************************************************************)
(* Rows of the same full_title.                                            *)
(***************************************************************************)
\* C33: within one run no two rows of the same full_title are both
\* resolved (a search request issued for each) or both put on the queue,
\* and no two jobs with the same target path are queued or held by workers
\* at the same time.
C33_TitleResolvedAndQueuedOnce ==
    /\ \A i, j \in searched : playlist[i] = playlist[j] => i = j
    /\ \A i, j \in enqueued : playlist[i] = playlist[j] => i = j
    /\ \A i, j \in Queued \cup Held :
          TrackSavePath(playlist[i]) = TrackSavePath(playlist[j]) => i = j

\* C34: at every point of a run, also after its cancellation, the audio
\* file of every job that reached the Completed write in this run exists at
\* the path the entry names.
C34_CompletedFileExists ==
    \A r \in completed_rows :
        /\ playlist[r] \in DOMAIN completed_downloads
        /\ completed_downloads[playlist[r]].path \in files

(***************************************************************************)
(* Failures of the file system while a worker processes a job: os.makedirs *)
(* and the open() of save_json_file can raise an OSError.  Neither call of *)
(* the worker's loop is inside a try that catches it, except the save of   *)
(* _cache_completed_download, which the post-download try encloses.        *)
(***************************************************************************)
\* An exception other than CancelledError leaves the worker's loop: the task
\* ends with the job it took, and task_done is not reached.
WorkerTaskEnds(w) == wpc' = [wpc EXCEPT ![w] = "ended by exception"]

\* download_queue.get() returned a job and os.makedirs raised.
MakedirsRaises(w) ==
    /\ wpc[w] = "idle"
    /\ download_queue # <<>>
    /\ wjob' = [wjob EXCEPT ![w] = Head(download_queue)]
    /\ download_queue' = get_nowait(download_queue)
    /\ WorkerTaskEnds(w)
    /\ UNCHANGED <<cfgvars, lyricsvars, callvars, cachevars, files, dirs, loopvars, wattempt,
                   werror, unfinished, histvars>>

\* The worker set the Failed entry of its job and save_json_file raised on
\* opening failed.json; disk is the set of files at that point.
FailedSaveRaises(w, reason, disk) ==
    /\ failed_downloads' = DictSet(failed_downloads, playlist[wjob[w]], reason)
    /\ files' = disk
    /\ WorkerTaskEnds(w)
    /\ UNCHANGED <<cfgvars, lyricsvars, callvars, completed_downloads, completed_json,
                   failed_json, dirs, loopvars, wjob, wattempt, werror, queuevars, histvars>>

\* The write of failed.json raised, after the last download attempt failed
\* or after a post-download step raised.
FailedWriteRaises(w) ==
    \/ /\ wpc[w] = "sleep"
       /\ ~LoopContinues(wattempt[w], RETRY_COUNT_DOWNLOAD)
       /\ FailedSaveRaises(w, FailedToDownload(werror[w]), files)
    \/ /\ wpc[w] = "tag"
       /\ FailedSaveRaises(w, PostDownloadError("CoverError"),
                           files \ {CoverPath(wjob[w])})
    \/ /\ wpc[w] = "tag"
       /\ FailedSaveRaises(w, PostDownloadError("TaggingError"), files)
    \/ /\ wpc[w] = "lyrics"
       /\ FailedSaveRaises(w, PostDownloadError("LyricsError"), files)

\* _fetch_lyrics returned, _cache_completed_download set the Completed entry
\* and its save_json_file raised: the post-download except branch records
\* the error in the Failed map and failed.json, and the job is marked done.
CompletedWriteRaises(w) ==
    /\ wpc[w] = "lyrics"
    /\ LET t == playlist[wjob[w]]
           fetched == _fetch_lyrics(CONFIG_DOWNLOAD_LYRICS, CONFIG_DOWNLOAD_UNSYNCED_LYRICS,
                                    TRUE, lrclib)
           after == WorkerCacheFailed(failed_downloads, failed_json, t,
                                      PostDownloadError("OSError"))
       IN /\ completed_downloads' =
                DictSet(completed_downloads, t,
                        CompletedDownload(TrackSavePath(t), fetched.found_lyrics,
                                          fetched.unsynced_exists))
          /\ files' = IF fetched.written # "none" THEN files \cup {LyricsPath(t)} ELSE files
          /\ failed_downloads' = after[1]
          /\ failed_json' = after[2]
    /\ lyrics_attempt' = [lyrics_attempt EXCEPT ![w] = 0]
    /\ JobDone(w)
    /\ UNCHANGED <<cfgvars, lyrics_tasks, task_attempt, callvars, completed_json, dirs,
                   loopvars, download_queue, histvars>>

NextDisk ==
    \/ Next
    \/ \E w \in Workers : MakedirsRaises(w)
    \/ \E w \in Workers : FailedWriteRaises(w)
    \/ \E w \in Workers : CompletedWriteRaises(w)

\* One run of the program on a disk that can refuse a directory or a write.
SpecDisk == Init /\ [][NextDisk]_vars

\* C35: no failure while a worker processes a job ends the worker task:
\* no worker is ever left ended by an exception, holding a job that was not
\* marked done.
C35_WorkerEndsOnlyByCancellation ==
    \A w \in Workers : wpc[w] # "ended by exception"

(***************************************************************************)
(* _match_track's scan of one candidate, from the texts of the source      *)
(* track and of the candidate (one artist on each side): the               *)
(* classifications are what compare_results returns for them.              *)
(***************************************************************************)
KEYWORDS_SONG_EDITS ==
    {<<"r", "e", "m", "i", "x">>,
     <<"e", "d", "i", "t">>,
     <<"s", "l", "o", "w", "e", "d">>,
     <<"i", "n", "s", "t", "r", "u", "m", "e", "n", "t", "a", "l">>,
     <<"l", "i", "v", "e">>}
is_song_edit(title) == \E keyword \in KEYWORDS_SONG_EDITS : IsIn(keyword, lower(title))

\* What the loop body computes of the source track and of the candidate.
SourceRead(spotify_track) ==
    [is_song_edit |-> is_song_edit(spotify_track.title), many_artists |-> FALSE]
Classifications(spotify_track, tidal_track) ==
    [is_song_edit |-> is_song_edit(tidal_track.title),
     many_artists |-> FALSE,
     title |-> compare_results(spotify_track.title, tidal_track.title, TITLE),
     artist |-> compare_results(spotify_track.artist, tidal_track.artist, ARTIST),
     artists_all |-> NONE,
     album |-> compare_results(spotify_track.album, tidal_track.album, ALBUM),
     is_single |->
        \/ lower(cleanse_track(spotify_track.title, TITLE))
              = lower(cleanse_track(spotify_track.album, TITLE))
        \/ lower(cleanse_track(tidal_track.title, TITLE))
              = lower(cleanse_track(tidal_track.album, TITLE))]

\* Tracks with a title of 2 to 4 characters or an edit keyword, an artist
\* and an album, which can be a collection.
TrackTexts ==
    [title : {<<"a", "b">>, <<"a", "b", "c">>, <<"a", "b", "c", "d">>, <<"e", "d", "i", "t">>},
     artist : {<<"a", "b", "c">>, <<"x", "y", "z">>},
     album : {<<"a", "b", "c">>, <<"x", "y", "z">>, <<"h", "i", "t", "s">>}]

InitMatch ==
    /\ InitCall
    /\ args \in [op : {"_match_track"}, spotify_track : TrackTexts, tidal_track : TrackTexts]
MatchTrackCalled ==
    Returns("_match_track",
            CandidateAccepted(SourceRead(args.spotify_track),
                              Classifications(args.spotify_track, args.tidal_track)))
SpecMatch == InitMatch /\ [][MatchTrackCalled]_vars

\* The classification of the candidate's title against the source title.
TitleMatch == compare_results(args.spotify_track.title, args.tidal_track.title, TITLE)
MatchReturned == result # NoCall /\ args.op = "_match_track"

\* C36: a candidate that is accepted has a title that compare_results
\* classifies as Exact or Substring against the source title; with Skip or
\* None it is not accepted.
C36_AcceptedTitleMatches ==
    (MatchReturned /\ result.value) => TitleMatch \in {EXACT, SUBSTRING}

\* C36, as the code has it: a candidate whose title classification is None
\* is never accepted; Exact, Substring and Skip all pass the title filter,
\* and a candidate whose title is Skip is accepted exactly when the artist
\* filter passes and its album classification is not None or it is a single.
C36_AcceptedTitleNotNone ==
    MatchReturned =>
        /\ result.value => TitleMatch # NONE
        /\ TitleMatch = SKIP =>
             LET c == Classifications(args.spotify_track, args.tidal_track)
             IN result.value <=>
                  /\ ~(~is_song_edit(args.spotify_track.title) /\ c.is_song_edit)
                  /\ c.artist # NONE
                  /\ c.album # NONE \/ c.is_single

\* A candidate was accepted whose title ("abc") is Skip against the source
\* title ("ab", shorter than 3 characters).
C36_Witness ==
    /\ MatchReturned
    /\ result.value
    /\ TitleMatch = SKIP
    /\ Len(args.spotify_track.title) < 3

(***************************************************************************)
(* The sync pass when file names are made safe for the OS                  *)
(* (CONFIG_WINDOWS_SAFE_FILE_NAMES): format_text_for_os removes the        *)
(* characters Windows disallows and strips spaces and dots, so the titles  *)
(* of two full_titles can give one file name.  The tracks are by one       *)
(* artist and on one album; every third track has the title of the track   *)
(* before it, followed by a question mark.                                 *)
(***************************************************************************)
WINDOWS_DISALLOWED_CHARS == {"<", ">", ":", "\"", "/", "\\", "|", "?", "*", "NUL"}
IsAllowedChar(c) == c \notin WINDOWS_DISALLOWED_CHARS
RECURSIVE strip_chars(_, _)
strip_chars(text, chars) ==
    IF text # <<>> /\ Head(text) \in chars
    THEN strip_chars(Tail(text), chars)
    ELSE IF text # <<>> /\ text[Len(text)] \in chars
    THEN strip_chars(SubSeq(text, 1, Len(text) - 1), chars)
    ELSE text
format_text_for_os(text) == strip_chars(SelectSeq(text, IsAllowedChar), {" ", "."})

TrackTitle(t) == IF t % 3 = 0 THEN <<ToString(t - 1), "?">> ELSE <<ToString(t)>>
\* The worker's track_save_path for the track, as _cache_completed_download
\* records it.
OsSafeSavePath(t) ==
    Append(get_download_path(ArtistOf(t), "album"),
           FileName(format_text_for_os(TrackTitle(t)), ".flac"))

InitSharedPaths ==
    /\ playlist \in Playlists
    /\ CONFIG_RETRY_FAILED = FALSE
    /\ CONFIG_SYNC \in BOOLEAN
    /\ \E C \in SUBSET CachedTitles :
        /\ completed_json =
             [t \in C |-> CompletedDownload(OsSafeSavePath(t), TRUE, Some(TRUE))]
        /\ failed_json \in UNION {[F -> LoadedReasons] : F \in SUBSET CachedTitles}
        /\ files = UNION {{OsSafeSavePath(t), with_suffix(OsSafeSavePath(t), ".lrc")} : t \in C}
        /\ dirs = UNION {makedirs({CONFIG_DOWNLOAD_PATH}, dirname(OsSafeSavePath(t))) : t \in C}
                    \cup {CONFIG_DOWNLOAD_PATH}
    /\ CONFIG_DOWNLOAD_LYRICS = TRUE
    /\ CONFIG_DOWNLOAD_UNSYNCED_LYRICS = FALSE
    /\ lrclib = [syncedLyrics |-> "text", plainLyrics |-> "text"]
    /\ InitTasks
    /\ args = NoCall
    /\ result = NoCall

SpecSharedPaths == InitSharedPaths /\ [][NextSync]_vars

\* C37: the sync pass of a run leaves every Completed and every Failed
\* entry of a full_title of the playlist as it was loaded, and every audio
\* and lyrics file that a Completed entry left in the map names is still on
\* disk after the pass, also when a removed entry names the same path.
C37_SyncKeepsRetained ==
    [][(pc = "start" /\ pc' # "start") =>
        LET current == CurrentTitles(playlist) IN
        /\ \A t \in DOMAIN completed_json \cap current :
              /\ t \in DOMAIN completed_downloads'
              /\ completed_downloads'[t] = completed_json[t]
        /\ \A t \in DOMAIN failed_json \cap current :
              /\ t \in DOMAIN failed_downloads'
              /\ failed_downloads'[t] = failed_json[t]
        /\ \A t \in DOMAIN completed_downloads' :
              LET path == completed_downloads'[t].path IN
              /\ path \in files => path \in files'
              /\ with_suffix(path, ".lrc") \in files => with_suffix(path, ".lrc") \in files'
      ]_vars

(***************************************************************************)
(* The cancellation of the workers at the end of a run.                    *)
(***************************************************************************)
\* The step is _finish_tasks' cancellation of the workers.
WorkersCancelledAtEnd == pc \in {"next", "gather"} /\ pc' = "done"

\* C38: when a run ends normally, at the cancellation of the workers every
\* worker waits for a job and holds none, and the cancellation removes no
\* file and no directory.
C38_FinalCancellationDeletesNothing ==
    [][WorkersCancelledAtEnd =>
        /\ \A w \in Workers : wpc[w] = "idle" /\ wjob[w] = 0
        /\ files' = files
        /\ dirs' = dirs]_vars

\* A run has ended in which one job failed its download after the file was
\* opened and another failed after its download: both files are on disk.
C38_Witness ==
    /\ pc = "done"
    /\ \E i, j \in Rows :
        /\ playlist[i] \in DOMAIN failed_downloads
        /\ failed_downloads[playlist[i]].kind = "Failed to download"
        /\ TrackSavePath(playlist[i]) \in files
        /\ playlist[j] \in DOMAIN failed_downloads
        /\ failed_downloads[playlist[j]].kind = "Post-download error"
        /\ TrackSavePath(playlist[j]) \in files

(***************************************************************************)
(* _fetch_lyrics with synced lyrics only.                                  *)
(***************************************************************************)
\* _fetch_lyrics returned, called with lyrics wanted and unsynced lyrics not.
SyncedOnlyReturned ==
    /\ result # NoCall
    /\ args.op = "_fetch_lyrics"
    /\ args.download_lyrics
    /\ ~args.download_unsynced

====
